---- MODULE Spec2Model ----
(***************************************************************************)
(* Statement ingestion of clover-calculator: the extractor factory, the    *)
(* Chase extractor with its text acquisition and confidence score, and the *)
(* processing service that drives a MerchantStatement through its status   *)
(* lifecycle.                                                              *)
(*                                                                         *)
(* Representation.  A Python str is a sequence of one-character strings.   *)
(* A Decimal amount is an integer counting units of 0.005 (half a cent),   *)
(* so that every amount with two decimals and its half (chase.py:272) are  *)
(* exact.  A dict is a function whose DOMAIN is its set of keys.  An        *)
(* Optional[Decimal] is a record [ok, value], ok false for None.           *)
(***************************************************************************)
EXTENDS Integers, Sequences, FiniteSets, TLC

\* None, comparable with every str (no str holds a longer element).
None == <<"None">>

\* ---------------------------------------------------------------- str ----

DigitChars == <<"0","1","2","3","4","5","6","7","8","9">>
LowerChars == <<"a","b","c","d","e","f","g","h","i","j","k","l","m","n","o","p","q","r","s","t","u","v","w","x","y","z">>
UpperChars == <<"A","B","C","D","E","F","G","H","I","J","K","L","M","N","O","P","Q","R","S","T","U","V","W","X","Y","Z">>

Range(s) == {s[i] : i \in 1..Len(s)}

IsDigit(c) == c \in Range(DigitChars)

SpaceChars == {" ", "\n", "\t"}

IsSpace(c) == c \in SpaceChars

CharUpper(c) ==
    IF c \in Range(LowerChars)
    THEN UpperChars[CHOOSE i \in 1..26 : LowerChars[i] = c]
    ELSE c

CharLower(c) ==
    IF c \in Range(UpperChars)
    THEN LowerChars[CHOOSE i \in 1..26 : UpperChars[i] = c]
    ELSE c

upper(s) == [i \in 1..Len(s) |-> CharUpper(s[i])]

lower(s) == [i \in 1..Len(s) |-> CharLower(s[i])]

\* str.isupper(): some cased character, and no lower-case one.
isupper(s) ==
    /\ \E i \in 1..Len(s) : s[i] \in Range(UpperChars)
    /\ \A i \in 1..Len(s) : s[i] \notin Range(LowerChars)

\* s[i:] starts with sub (i counted from 1).
StartsAt(s, sub, i) ==
    /\ i >= 1
    /\ i + Len(sub) - 1 <= Len(s)
    /\ \A k \in 1..Len(sub) : s[i + k - 1] = sub[k]

\* Python's `sub in s`.
Contains(sub, s) == \E i \in 1..(Len(s) + 1) : StartsAt(s, sub, i)

\* str.strip(): leading and trailing whitespace removed.
strip(s) ==
    IF \A i \in 1..Len(s) : IsSpace(s[i]) THEN <<>>
    ELSE LET a == CHOOSE i \in 1..Len(s) :
                      ~IsSpace(s[i]) /\ \A j \in 1..(i - 1) : IsSpace(s[j])
             b == CHOOSE i \in 1..Len(s) :
                      ~IsSpace(s[i]) /\ \A j \in (i + 1)..Len(s) : IsSpace(s[j])
         IN  SubSeq(s, a, b)

\* str.replace(c, r) for a one-character c.
replace(s, c, r) ==
    LET done[i \in 0..Len(s)] ==
            IF i = 0 THEN <<>>
            ELSE done[i - 1] \o (IF s[i] = c THEN r ELSE <<s[i]>>)
    IN  done[Len(s)]

\* str.split(c) for a one-character separator.
split(s, c) ==
    LET seps   == {i \in 1..Len(s) : s[i] = c}
        n      == Cardinality(seps)
        pos(k) == IF k = 0 THEN 0
                  ELSE IF k = n + 1 THEN Len(s) + 1
                  ELSE CHOOSE i \in seps : Cardinality({j \in seps : j < i}) = k - 1
    IN  [k \in 1..(n + 1) |-> SubSeq(s, pos(k - 1) + 1, pos(k) - 1)]

\* sep.join(parts).
join(sep, parts) ==
    LET done[i \in 0..Len(parts)] ==
            IF i = 0 THEN <<>>
            ELSE IF i = 1 THEN parts[1]
            ELSE done[i - 1] \o sep \o parts[i]
    IN  done[Len(parts)]

\* The value of a run of digits.
DigitsValue(s) ==
    LET done[i \in 0..Len(s)] ==
            IF i = 0 THEN 0 ELSE 10 * done[i - 1]
                 + (CHOOSE d \in 1..10 : DigitChars[d] = s[i]) - 1
    IN  done[Len(s)]

AllDigits(s) == \A i \in 1..Len(s) : IsDigit(s[i])

\* ------------------------------------------------------- conversions ----

\* A numeric literal without its optional sign.
Unsign(t) == IF t # <<>> /\ t[1] \in {"-", "+"} THEN Tail(t) ELSE t

\* The parse r of Unsign(t), negated when t starts with "-".
WithSign(t, r) ==
    IF r.ok /\ t # <<>> /\ t[1] = "-" THEN [r EXCEPT !.value = -@] ELSE r

\* An unsigned decimal literal: digits with at most one point and at least
\* one digit, or one of the special values NaN, sNaN, Inf and Infinity in any
\* case; [ok, special, value], the value in units of 0.005 (the amounts read
\* have at most two decimals, no exponent and no underscore), `special`
\* telling that the Decimal is NaN or an infinity and has no such value.
UnsignedDecimal(body) ==
    LET dots == {i \in 1..Len(body) : body[i] = "."}
        dot  == IF dots = {} THEN Len(body) + 1 ELSE CHOOSE i \in dots : TRUE
        ip   == SubSeq(body, 1, dot - 1)
        fp   == SubSeq(body, dot + 1, Len(body))
    IN  IF /\ Cardinality(dots) <= 1
           /\ AllDigits(ip) /\ AllDigits(fp)
           /\ Len(ip) + Len(fp) >= 1
        THEN [ok    |-> TRUE, special |-> FALSE,
              value |-> 200 * DigitsValue(ip)
                        + 2 * DigitsValue(SubSeq(fp \o <<"0", "0">>, 1, 2))]
        ELSE IF lower(body) \in {<<"n","a","n">>, <<"s","n","a","n">>, <<"i","n","f">>, <<"i","n","f","i","n","i","t","y">>}
        THEN [ok |-> TRUE, special |-> TRUE, value |-> 0]
        ELSE [ok |-> FALSE, special |-> FALSE, value |-> 0]

\* An unsigned integer literal: at least one digit; [ok, value].
UnsignedInt(body) ==
    IF body # <<>> /\ AllDigits(body)
    THEN [ok |-> TRUE, value |-> DigitsValue(body)]
    ELSE [ok |-> FALSE, value |-> 0]

\* Decimal(str): [ok, value].  Surrounding whitespace and an optional sign
\* are accepted; anything else than a decimal literal raises (ok false).
Decimal(str) == WithSign(strip(str), UnsignedDecimal(Unsign(strip(str))))

\* int(str): [ok, value].
int(str) == WithSign(strip(str), UnsignedInt(Unsign(strip(str))))

\* The value of a parse, 0 where it raised (`except: return 0`).
OrZero(r) == IF r.ok THEN r.value ELSE 0

\* base.py:241: the str without currency symbols, commas and parentheses.
Cleaned(value) ==
    strip(replace(replace(replace(replace(value,
        "$", <<>>), ",", <<>>), "(", <<"-">>), ")", <<>>))

\* _safe_decimal where the Decimal returned is finite: its value.
_safe_decimal(value) ==
    IF value = None THEN 0 ELSE OrZero(Decimal(Cleaned(value)))

_safe_int(value) ==
    IF value = None THEN 0
    ELSE OrZero(int(strip(replace(value, ",", <<>>))))
\* ------------------------------------------------------------- regex ----

SepChars == {"*"} \cup SpaceChars

\* The end (exclusive) of the longest run of characters of a class from i.
RunEnd(s, i, class) ==
    IF \A j \in i..Len(s) : s[j] \in class THEN Len(s) + 1
    ELSE CHOOSE j \in i..Len(s) :
             s[j] \notin class /\ \A k \in i..(j - 1) : s[k] \in class

\* The character at i, "" past either end.
At(s, i) == IF i >= 1 /\ i <= Len(s) THEN s[i] ELSE ""

\* ([\d,]+\.\d{2}) matched at position i: [ok, stop, text].
AmountAt(s, i) ==
    LET q == RunEnd(s, i, Range(DigitChars) \cup {","})
    IN  IF /\ i >= 1 /\ i <= Len(s) /\ q > i
           /\ At(s, q) = "." /\ IsDigit(At(s, q + 1)) /\ IsDigit(At(s, q + 2))
        THEN [ok |-> TRUE, stop |-> q + 3, text |-> SubSeq(s, i, q + 2)]
        ELSE [ok |-> FALSE, stop |-> i, text |-> <<>>]

\* \$?\s? matched at position p: the position after it.
AfterDollar(s, p) ==
    IF At(s, p) # "$" THEN p
    ELSE IF IsSpace(At(s, p + 1)) THEN p + 2 ELSE p + 1

NoCountAmount == [ok |-> FALSE, count |-> <<>>, amount |-> <<>>]

\* [*\s]+(\d+)[*\s]+\$?\s?([\d,]+\.\d{2}) matched at position j, the
\* position after a keyword: [ok, count, amount].
CountAmountAt(s, j) ==
    LET k == RunEnd(s, j, SepChars)
        m == RunEnd(s, k, Range(DigitChars))
        a == AmountAt(s, AfterDollar(s, RunEnd(s, m, SepChars)))
    IN  IF At(s, j) \in SepChars /\ IsDigit(At(s, k)) /\ At(s, m) \in SepChars /\ a.ok
        THEN [ok |-> TRUE, count |-> SubSeq(s, k, m - 1), amount |-> a.text]
        ELSE NoCountAmount

Least(S) == CHOOSE i \in S : \A j \in S : i <= j

Greatest(S) == CHOOSE i \in S : \A j \in S : i >= j

\* The first successful match of the attempts rs, none when all fail: the
\* leftmost match of re.search, the first alternative of an alternation.
FirstOk(rs, none) ==
    IF \A i \in 1..Len(rs) : ~rs[i].ok THEN none
    ELSE rs[Least({i \in 1..Len(rs) : rs[i].ok})]

\* <KW>[*\s]+(\d+)[*\s]+\$?\s?([\d,]+\.\d{2}) matched at position i (of the
\* upper-cased line for the keyword: re.IGNORECASE), <KW> an alternation of
\* the keywords kws tried in order.
KeywordCountAmountAt(kws, line, i) ==
    FirstOk([n \in 1..Len(kws) |->
                IF StartsAt(upper(line), kws[n], i)
                THEN CountAmountAt(line, i + Len(kws[n]))
                ELSE NoCountAmount],
            NoCountAmount)

\* re.search(r'<KW>[*\s]+(\d+)[*\s]+\$?\s?([\d,]+\.\d{2})', line,
\* re.IGNORECASE): the leftmost match.
SearchCountAmount(kws, line) ==
    FirstOk([i \in 1..Len(line) |-> KeywordCountAmountAt(kws, line, i)],
            NoCountAmount)

\* \$\s?([\d,]+\.\d{2}) matched at position i: [ok, stop, text].
DollarAmountAt(line, i) ==
    IF At(line, i) = "$" THEN AmountAt(line, AfterDollar(line, i))
    ELSE AmountAt(line, 0)

\* re.search(r'\$\s?([\d,]+\.\d{2})', line): the leftmost match.
SearchDollarAmount(line) ==
    FirstOk([i \in 1..Len(line) |-> DollarAmountAt(line, i)], AmountAt(line, 0))

\* re.findall(r'([\d,]+\.\d{2})', line) scanning from position i: the
\* matches in order, none overlapping.
FindAllAmounts(line, i) ==
    LET from[j \in i..(Len(line) + 1)] ==
            IF j > Len(line) THEN <<>>
            ELSE IF AmountAt(line, j).ok
            THEN <<AmountAt(line, j).text>> \o from[AmountAt(line, j).stop]
            ELSE from[j + 1]
    IN  from[i]
\* ---------------------------------------------------------- document ----

\* A document (a PDF file as pdfplumber reads it) is a record
\*   [corrupt |-> pdfplumber.open raises,
\*    reopen_raises |-> pdfplumber.open raises when the fallback opens the
\*                      file again (ocr_helper.py:64),
\*    pages   |-> sequence of
\*       [text         |-> what extract_text() returns: a str or None,
\*        text_raises  |-> extract_text() raises,
\*        tables       |-> what extract_tables() returns: a sequence of
\*                         tables, each a sequence of rows, each a sequence
\*                         of cells, a cell a str or None,
\*        tables_raise |-> extract_tables() raises]].
MIN_TEXT_LENGTH == 100

\* The texts of the pages that have one, in page order (the loops of
\* base.py:105-109 and ocr_helper.py:64-68); no page raises.
PageTexts(pages) ==
    LET done[i \in 0..Len(pages)] ==
            IF i = 0 THEN <<>>
            ELSE done[i - 1] \o (IF pages[i].text = None \/ pages[i].text = <<>>
                                 THEN <<>> ELSE <<pages[i].text>>)
    IN  done[Len(pages)]

SomePageRaises(pages) == \E i \in 1..Len(pages) : pages[i].text_raises

\* OCRHelper.extract_text_from_pdf: the page texts joined by the page break;
\* every exception is caught inside and gives "".
extract_text_from_pdf(doc, llm_available) ==
    IF ~llm_available THEN <<>>
    ELSE IF doc.reopen_raises \/ SomePageRaises(doc.pages) THEN <<>>
    ELSE join(<<"\n","\n","=","=","="," ","P","A","G","E"," ","B","R","E","A","K"," ","=","=","=","\n","\n">>, PageTexts(doc.pages))

\* OCRHelper.get_groq_client: [client, cache], the client returned and the
\* class attribute _groq_client afterwards.
get_groq_client(cache, api_key) ==
    IF cache = None
    THEN IF ~api_key THEN [client |-> None, cache |-> None]
         ELSE [client |-> <<"Groq">>, cache |-> <<"Groq">>]
    ELSE [client |-> cache, cache |-> cache]

\* check_llm_installed (check_tesseract_installed is its alias): [ok, cache].
check_llm_installed(llm_available, cache, api_key) ==
    IF ~llm_available THEN [ok |-> FALSE, cache |-> cache]
    ELSE LET g == get_groq_client(cache, api_key)
         IN  [ok |-> g.client # None, cache |-> g.cache]

\* _extract_full_text without the length test of base.py:94: the preferred
\* fallback's text is returned however short it is.
_extract_full_text_fallback_at_any_length(doc, force_ocr, available, errors) ==
    LET ocr_text == extract_text_from_pdf(doc, available)
        preferred == force_ocr /\ available
        combined_text == join(<<"\n">>, PageTexts(doc.pages))
        short == Len(strip(combined_text)) < MIN_TEXT_LENGTH /\ ~force_ocr
    IN  IF preferred
        THEN [raised |-> FALSE, text |-> ocr_text, checked |-> TRUE,
              errors |-> Append(errors, "Used LLM-based extraction (force_ocr=True)")]
        ELSE IF SomePageRaises(doc.pages)
        THEN [raised |-> TRUE, text |-> <<>>, checked |-> force_ocr, errors |-> errors]
        ELSE IF short /\ available /\ Len(ocr_text) > Len(combined_text)
        THEN [raised |-> FALSE, text |-> ocr_text, checked |-> TRUE,
              errors |-> Append(errors, "Used alternative extraction fallback")]
        ELSE IF short /\ ~available
        THEN [raised |-> FALSE, text |-> combined_text, checked |-> TRUE,
              errors |-> Append(errors,
                  "Limited text detected but alternative extraction not available")]
        ELSE [raised |-> FALSE, text |-> combined_text,
              checked |-> force_ocr \/ short, errors |-> errors]

\* _extract_full_text letting a fallback that gave no text end the
\* acquisition, as an exception of the fallback would without the handlers
\* of ocr_helper.py:76-78 and base.py:100-102, 124-126.
_extract_full_text_fallback_failure_raises(doc, force_ocr, available, errors) ==
    LET ocr_text == extract_text_from_pdf(doc, available)
        preferred == force_ocr /\ available /\ Len(ocr_text) > MIN_TEXT_LENGTH
        combined_text == join(<<"\n">>, PageTexts(doc.pages))
        short == Len(strip(combined_text)) < MIN_TEXT_LENGTH /\ ~force_ocr
    IN  IF preferred
        THEN [raised |-> FALSE, text |-> ocr_text, checked |-> TRUE,
              errors |-> Append(errors, "Used LLM-based extraction (force_ocr=True)")]
        ELSE IF SomePageRaises(doc.pages)
        THEN [raised |-> TRUE, text |-> <<>>, checked |-> force_ocr, errors |-> errors]
        ELSE IF available /\ (force_ocr \/ short) /\ ocr_text = <<>>
        THEN [raised |-> TRUE, text |-> <<>>, checked |-> TRUE, errors |-> errors]
        ELSE IF short /\ available /\ Len(ocr_text) > Len(combined_text)
        THEN [raised |-> FALSE, text |-> ocr_text, checked |-> TRUE,
              errors |-> Append(errors, "Used alternative extraction fallback")]
        ELSE IF short /\ ~available
        THEN [raised |-> FALSE, text |-> combined_text, checked |-> TRUE,
              errors |-> Append(errors,
                  "Limited text detected but alternative extraction not available")]
        ELSE [raised |-> FALSE, text |-> combined_text,
              checked |-> force_ocr \/ short, errors |-> errors]

\* BaseExtractor._extract_full_text with self.pdf open on doc:
\* [raised, text, errors, checked]; checked tells whether
\* check_tesseract_installed was called (it creates the shared client).
_extract_full_text(doc, force_ocr, available, errors) ==
    LET ocr_text == extract_text_from_pdf(doc, available)
        preferred == force_ocr /\ available /\ Len(ocr_text) > MIN_TEXT_LENGTH
        combined_text == join(<<"\n">>, PageTexts(doc.pages))
        short == Len(strip(combined_text)) < MIN_TEXT_LENGTH /\ ~force_ocr
    IN  IF preferred
        THEN [raised |-> FALSE, text |-> ocr_text, checked |-> TRUE,
              errors |-> Append(errors, "Used LLM-based extraction (force_ocr=True)")]
        ELSE IF SomePageRaises(doc.pages)
        THEN [raised |-> TRUE, text |-> <<>>, checked |-> force_ocr, errors |-> errors]
        ELSE IF short /\ available /\ Len(ocr_text) > Len(combined_text)
        THEN [raised |-> FALSE, text |-> ocr_text, checked |-> TRUE,
              errors |-> Append(errors, "Used alternative extraction fallback")]
        ELSE IF short /\ ~available
        THEN [raised |-> FALSE, text |-> combined_text, checked |-> TRUE,
              errors |-> Append(errors,
                  "Limited text detected but alternative extraction not available")]
        ELSE [raised |-> FALSE, text |-> combined_text,
              checked |-> force_ocr \/ short, errors |-> errors]

\* ---------------------------------------------------- ChaseExtractor ----

_detect_processor(full_text) ==
    LET text_lower == lower(full_text)
    IN  IF \/ Contains(<<"c","h","a","s","e"," ","p","a","y","m","e","n","t","e","c","h">>, text_lower)
           \/ Contains(<<"j",".","p",".","m","o","r","g","a","n">>, text_lower)
           \/ Contains(<<"c","h","a","s","e"," ","m","e","r","c","h","a","n","t"," ","s","e","r","v","i","c","e","s">>, text_lower)
        THEN "Chase Paymentech"
        ELSE "Unknown"

HEADER_LINES == 15

\* The first loop of _extract_merchant_name at line i (counted from 1): the
\* name it returns there, or None when the loop goes on.
MerchantNameAt(lines, i) ==
    LET line == lines[i]
        prev == IF i > 1 THEN strip(lines[i - 1]) ELSE <<>>
    IN  IF \/ Contains(<<"M","e","r","c","h","a","n","t"," ","S","e","r","v","i","c","e","s">>, line)
           \/ Contains(<<"P","O"," ","B","o","x">>, line)
           \/ Contains(<<"C","H","A","S","E">>, line)
        THEN None
        ELSE IF Contains(<<"A","T","T","N",":">>, line) /\ i > 1 /\ Len(prev) > 3
        THEN prev
        ELSE IF /\ isupper(line) /\ 5 < Len(line) /\ Len(line) < 100
                /\ ~Contains(<<"N","O","T","I","C","E">>, line)
                /\ \E suffix \in {<<"I","N","C">>, <<"L","L","C">>, <<"L","T","D">>, <<"C","O","R","P">>, <<"C","O",".">>} :
                      Contains(suffix, line)
        THEN strip(line)
        ELSE None

\* The fallback loop at a 'Company Number' line i (counted from 1): the
\* nearest of the lines i-1 .. max(1, i-5)+1 that can be a name, or None.
CompanyNameAt(lines, i) ==
    LET lo == (IF i - 5 > 1 THEN i - 5 ELSE 1) + 1
        ok == {j \in lo..(i - 1) :
                  /\ Len(strip(lines[j])) > 3
                  /\ ~Contains(<<"S","t","a","t","e","m","e","n","t"," ","P","e","r","i","o","d">>, strip(lines[j]))}
    IN  IF Contains(<<"C","o","m","p","a","n","y"," ","N","u","m","b","e","r">>, lines[i]) /\ i > 1 /\ ok # {}
        THEN strip(lines[Greatest(ok)])
        ELSE None

\* The first of the names that is not None, None when there is none.
FirstName(names) ==
    IF \A i \in 1..Len(names) : names[i] = None THEN None
    ELSE names[Least({i \in 1..Len(names) : names[i] # None})]

\* `a` unless it is None, then b.
Coalesce(a, b) == IF a # None THEN a ELSE b

_extract_merchant_name(full_text) ==
    LET lines == split(full_text, "\n")
        top   == IF Len(lines) < HEADER_LINES THEN Len(lines) ELSE HEADER_LINES
    IN  Coalesce(FirstName([i \in 1..top |-> MerchantNameAt(lines, i)]),
            Coalesce(FirstName([i \in 1..Len(lines) |-> CompanyNameAt(lines, i)]),
                     <<>>))

MONTH_ABBR == <<<<"j","a","n">>, <<"f","e","b">>, <<"m","a","r">>, <<"a","p","r">>, <<"m","a","y">>, <<"j","u","n">>,
                <<"j","u","l">>, <<"a","u","g">>, <<"s","e","p">>, <<"o","c","t">>, <<"n","o","v">>, <<"d","e","c">>>>

DaysIn(y, m) ==
    IF m = 2
    THEN (IF (y % 4 = 0 /\ y % 100 # 0) \/ y % 400 = 0 THEN 29 ELSE 28)
    ELSE IF m \in {4, 6, 9, 11} THEN 30 ELSE 31

TwoDigits(n) == <<DigitChars[(n \div 10) + 1], DigitChars[(n % 10) + 1]>>

\* strftime('%Y-%m-%d') of a date with a four-digit year.
strftime(y, m, d) ==
    TwoDigits(y \div 100) \o TwoDigits(y % 100) \o <<"-">> \o TwoDigits(m)
        \o <<"-">> \o TwoDigits(d)

\* _parse_chase_date: strptime(date_str, '%d-%b-%Y') as an ISO date, None
\* when it raises ('%d-%B-%Y' accepts no three-letter month that '%b' refuses).
_parse_chase_date(date_str) ==
    LET parts == split(date_str, "-")
        dd    == parts[1]
        mon   == {m \in 1..12 : MONTH_ABBR[m] = lower(parts[2])}
        y     == DigitsValue(parts[3])
        d     == DigitsValue(dd)
        m     == CHOOSE m \in mon : TRUE
    IN  IF /\ Len(parts) = 3 /\ AllDigits(dd) /\ Len(dd) \in {1, 2}
           /\ AllDigits(parts[3]) /\ Len(parts[3]) = 4
           /\ mon # {} /\ y >= 1 /\ d >= 1 /\ d <= DaysIn(y, m)
        THEN strftime(y, m, d)
        ELSE None

\* (\d{1,2}-[A-Za-z]{3}-\d{4}) matched at position i: [ok, stop, text].
ChaseDateAt(s, i) ==
    LET n == IF IsDigit(At(s, i)) /\ IsDigit(At(s, i + 1)) THEN 2 ELSE 1
        j == i + n
    IN  IF /\ IsDigit(At(s, i)) /\ At(s, j) = "-"
           /\ \A k \in 1..3 : At(s, j + k) \in Range(LowerChars) \cup Range(UpperChars)
           /\ At(s, j + 4) = "-"
           /\ \A k \in 5..8 : IsDigit(At(s, j + k))
        THEN [ok |-> TRUE, stop |-> j + 9, text |-> SubSeq(s, i, j + 8)]
        ELSE [ok |-> FALSE, stop |-> i, text |-> <<>>]

STATEMENT_PERIOD == <<"S","t","a","t","e","m","e","n","t"," ","P","e","r","i","o","d">>

NoPeriod == [ok |-> FALSE, start |-> <<>>, end |-> <<>>]

\* \s*-\s*(date) matched at position j: the date, [ok, stop, text].
SecondDateAt(s, j) ==
    LET c == RunEnd(s, j, SpaceChars)
    IN  IF At(s, c) = "-" THEN ChaseDateAt(s, RunEnd(s, c + 1, SpaceChars))
        ELSE ChaseDateAt(s, 0)

\* The two groups of the period pattern, from the matches of its two dates.
DatePair(d1, d2) ==
    IF d1.ok /\ d2.ok THEN [ok |-> TRUE, start |-> d1.text, end |-> d2.text]
    ELSE NoPeriod

\* 'Statement Period\s+(date)\s*-\s*(date)' matched at position i.
StatementPeriodAt(s, i) ==
    LET b == RunEnd(s, i + Len(STATEMENT_PERIOD), SpaceChars)
    IN  IF StartsAt(s, STATEMENT_PERIOD, i) /\ b > i + Len(STATEMENT_PERIOD)
        THEN DatePair(ChaseDateAt(s, b), SecondDateAt(s, ChaseDateAt(s, b).stop))
        ELSE NoPeriod

\* The statement_period entry of a match of the period pattern.
ParsedPeriod(match) ==
    IF match.ok
    THEN [start_date |-> _parse_chase_date(match.start),
          end_date   |-> _parse_chase_date(match.end)]
    ELSE [start_date |-> None, end_date |-> None]

_extract_statement_period(full_text) ==
    ParsedPeriod(FirstOk([i \in 1..Len(full_text) |->
                             StatementPeriodAt(full_text, i)], NoPeriod))
NETWORKS == {"visa", "mastercard", "amex", "discover", "interac"}

\* The rows of every table of every page, in reading order, up to the first
\* page whose extract_tables() raises: [rows, raised].  Empty tables and
\* empty rows are skipped (`if not table`, `if not row`).
Flatten(seqs) ==
    LET done[i \in 0..Len(seqs)] ==
            IF i = 0 THEN <<>> ELSE done[i - 1] \o seqs[i]
    IN  done[Len(seqs)]

TableRows(pages) ==
    LET raising == {i \in 1..Len(pages) : pages[i].tables_raise}
        read    == IF raising = {} THEN Len(pages)
                   ELSE (CHOOSE i \in raising : \A j \in raising : i <= j) - 1
    IN  [rows   |-> Flatten([i \in 1..read |->
                        SelectSeq(Flatten(pages[i].tables),
                                  LAMBDA row : row # <<>>)]),
         raised |-> raising # {}]

\* A cell that is neither None nor "".
Truthy(cell) == cell # None /\ cell # <<>>

\* The branch of the if/elif chain of chase.py:138-171 a text line takes, by
\* its upper-cased text, and the keywords of that branch's pattern.
LineNetwork(line_upper) ==
    IF Contains(<<"V","I","S","A">>, line_upper) /\ ~Contains(<<"M","A","S","T","E","R","C","A","R","D">>, line_upper)
    THEN [network |-> "visa", kws |-> <<<<"V","I","S","A">>>>]
    ELSE IF Contains(<<"M","A","S","T","E","R","C","A","R","D">>, line_upper)
    THEN [network |-> "mastercard", kws |-> <<<<"M","A","S","T","E","R","C","A","R","D">>>>]
    ELSE IF \/ Contains(<<"A","M","E","R","I","C","A","N"," ","E","X","P","R","E","S","S">>, line_upper)
            \/ (Contains(<<"A","M","E","X">>, line_upper) /\ ~Contains(<<"E","X","P","R","E","S","S">>, line_upper))
    THEN [network |-> "amex", kws |-> <<<<"A","M","E","R","I","C","A","N"," ","E","X","P","R","E","S","S">>, <<"A","M","E","X">>>>]
    ELSE IF Contains(<<"D","I","S","C","O","V","E","R">>, line_upper)
    THEN [network |-> "discover", kws |-> <<<<"D","I","S","C","O","V","E","R">>>>]
    ELSE IF Contains(<<"I","N","T","E","R","A","C">>, line_upper)
    THEN [network |-> "interac", kws |-> <<<<"I","N","T","E","R","A","C">>>>]
    ELSE [network |-> "none", kws |-> <<>>]

\* The assignments of a branch of chase.py:138-171 under `if match:`.
SetCard(card_volumes, network, match) ==
    IF network # "none" /\ match.ok
    THEN [card_volumes EXCEPT ![network] =
             [count  |-> _safe_int(match.count),
              volume |-> _safe_decimal(match.amount)]]
    ELSE card_volumes

\* One iteration of the line loop of _extract_card_volumes.
CardLine(card_volumes, line) ==
    SetCard(card_volumes, LineNetwork(upper(line)).network,
            SearchCountAmount(LineNetwork(upper(line)).kws, line))

\* The line loop of _extract_card_volumes.
CardLines(lines) ==
    LET done[i \in 0..Len(lines)] ==
            IF i = 0 THEN [n \in NETWORKS |-> [volume |-> 0, count |-> 0]]
            ELSE CardLine(done[i - 1], lines[i])
    IN  done[Len(lines)]

\* a unless it is zero, then b.
NonZeroOr(a, b) == IF a # 0 THEN a ELSE b

\* _parse_card_row: the card_data entry after the row.
_parse_card_row(row, card_data) ==
    [volume |-> NonZeroOr(IF Len(row) > 6 /\ Truthy(row[7])
                          THEN _safe_decimal(row[7]) ELSE 0,
                          IF Len(row) > 2 /\ Truthy(row[3])
                          THEN card_data.volume + _safe_decimal(row[3])
                          ELSE card_data.volume),
     count  |-> IF Len(row) > 1 /\ Truthy(row[2])
                THEN card_data.count + _safe_int(row[2])
                ELSE card_data.count]

\* The branch of chase.py:193-202 a table row takes, by its first cell.
RowNetwork(row) ==
    LET card_type == upper(strip(row[1]))
    IN  IF ~Truthy(row[1]) THEN "none"
        ELSE IF Contains(<<"V","I","S","A">>, card_type) /\ ~Contains(<<"M","A","S","T","E","R","C","A","R","D">>, card_type)
        THEN "visa"
        ELSE IF Contains(<<"M","A","S","T","E","R","C","A","R","D">>, card_type) THEN "mastercard"
        ELSE IF Contains(<<"A","M","E","R","I","C","A","N"," ","E","X","P","R","E","S","S">>, card_type) \/ Contains(<<"A","M","E","X">>, card_type)
        THEN "amex"
        ELSE IF Contains(<<"D","I","S","C","O","V","E","R">>, card_type) THEN "discover"
        ELSE IF Contains(<<"I","N","T","E","R","A","C">>, card_type) THEN "interac"
        ELSE "none"

\* One iteration of the row loop of _extract_card_volumes.
CardRow(card_volumes, row) ==
    IF RowNetwork(row) = "none" THEN card_volumes
    ELSE [card_volumes EXCEPT ![RowNetwork(row)] = _parse_card_row(row, @)]

\* The row loop of _extract_card_volumes.
CardRows(card_volumes, rows) ==
    LET done[i \in 0..Len(rows)] ==
            IF i = 0 THEN card_volumes ELSE CardRow(done[i - 1], rows[i])
    IN  done[Len(rows)]

\* The table rows read whatever the line loop gave.
CardFallback_unconditional(by_text, tables) ==
    [value |-> CardRows(by_text, tables.rows), raised |-> tables.raised]

\* The table fallback of _extract_card_volumes after the line loop gave
\* by_text: [value, raised].
CardFallback(by_text, tables) ==
    IF \A n \in NETWORKS : by_text[n].volume = 0
    THEN [value |-> CardRows(by_text, tables.rows), raised |-> tables.raised]
    ELSE [value |-> by_text, raised |-> FALSE]

\* _extract_card_volumes: [value, raised], the dict returned and whether
\* the except branch appended its message to self.errors.
_extract_card_volumes(full_text, doc) ==
    CardFallback(CardLines(split(full_text, "\n")), TableRows(doc.pages))

\* An absent Optional[Decimal], and a present one.
Null == [ok |-> FALSE, value |-> 0]

Some(value) == [ok |-> TRUE, value |-> value]

\* The text _extract_amount_from_line converts: the dollar match, else the
\* last of the bare amounts; None when there is neither.
AmountText(match, matches) ==
    IF match.ok THEN match.text
    ELSE IF matches # <<>> THEN matches[Len(matches)]
    ELSE None

\* _extract_amount_from_line: an Optional[Decimal].
_extract_amount_from_line(line) ==
    LET text == AmountText(SearchDollarAmount(line), FindAllAmounts(line, 1))
    IN  IF text = None THEN Null ELSE Some(_safe_decimal(text))

\* The last of the values that is positive, as an Optional[Decimal].
LastPositive(values) ==
    IF \A i \in 1..Len(values) : values[i] <= 0 THEN Null
    ELSE Some(values[Greatest({i \in 1..Len(values) : values[i] > 0})])

\* _extract_amount_from_row: the last cell that parses to a positive
\* amount, an Optional[Decimal].
_extract_amount_from_row(row) ==
    LastPositive([i \in 1..Len(row) |->
                     IF Truthy(row[i]) THEN _safe_decimal(row[i]) ELSE 0])

\* `if amount:` holds for an amount that is neither None nor zero.
IsAmount(amount) == amount.ok /\ amount.value # 0

\* The branch of the if/elif chain of chase.py:254-281 a line takes, by its
\* upper-cased text.
FeeBranch(line_upper) ==
    IF Contains(<<"I","N","T","E","R","C","H","A","N","G","E"," ","F","E","E","S"," ","T","O","T","A","L">>, line_upper) THEN "interchange_fees"
    ELSE IF /\ Contains(<<"A","S","S","E","S","S","M","E","N","T"," ","F","E","E","S">>, line_upper)
            /\ ~Contains(<<"T","O","T","A","L">>, line_upper)
    THEN "assessment_fees"
    ELSE IF Contains(<<"F","E","E","S"," ","A","N","D"," ","A","S","S","E","S","S","M","E","N","T","S"," ","T","O","T","A","L">>, line_upper)
    THEN "fees_and_assessments"
    ELSE IF \/ Contains(<<"M","O","N","T","H","L","Y"," ","A","D","M","I","N"," ","F","E","E">>, line_upper)
            \/ Contains(<<"M","O","N","T","H","L","Y"," ","F","E","E">>, line_upper)
    THEN "monthly_fees"
    ELSE IF \/ Contains(<<"O","T","H","E","R"," ","C","H","A","R","G","E","S">>, line_upper)
            \/ Contains(<<"T","O","T","A","L"," ","O","T","H","E","R"," ","C","H","A","R","G","E","S">>, line_upper)
    THEN "other_fees"
    ELSE "none"

\* The update of a branch of chase.py:254-281 under `if amount:`.
AddFee(fees, branch, amount) ==
    IF branch = "none" \/ ~IsAmount(amount) THEN fees
    ELSE IF branch = "fees_and_assessments"
    THEN [fees EXCEPT !["assessment_fees"] = @ + amount.value \div 2,
                      !["processing_fees"] = @ + amount.value \div 2]
    ELSE [fees EXCEPT ![branch] = @ + amount.value]

\* One iteration of the line loop of _extract_fees.
FeeLine(fees, line) ==
    AddFee(fees, FeeBranch(upper(line)), _extract_amount_from_line(line))

FEE_KEYS == {"interchange_fees", "assessment_fees", "processing_fees",
             "monthly_fees", "other_fees"}

\* The line loop of _extract_fees.
FeeLines(lines) ==
    LET done[i \in 0..Len(lines)] ==
            IF i = 0 THEN [k \in FEE_KEYS |-> 0]
            ELSE FeeLine(done[i - 1], lines[i])
    IN  done[Len(lines)]

\* The update of chase.py:300-304 under `if amount:`.
MaxFee(fees, amount) ==
    IF IsAmount(amount)
    THEN [fees EXCEPT !["interchange_fees"] = IF @ >= amount.value THEN @ ELSE amount.value]
    ELSE fees

\* One iteration of the row loop of _extract_fees.
FeeRow(fees, row) ==
    IF /\ Len(row) >= 2
       /\ Contains(<<"I","N","T","E","R","C","H","A","N","G","E"," ","F","E","E","S"," ","T","O","T","A","L">>, upper(join(<<" ">>, SelectSeq(row, Truthy))))
    THEN MaxFee(fees, _extract_amount_from_row(row))
    ELSE fees

\* The row loop of _extract_fees.
FeeRows(fees, rows) ==
    LET done[i \in 0..Len(rows)] ==
            IF i = 0 THEN fees ELSE FeeRow(done[i - 1], rows[i])
    IN  done[Len(rows)]

\* _extract_fees: [value, raised].
_extract_fees(full_text, doc) ==
    [value  |-> FeeRows(FeeLines(split(full_text, "\n")), TableRows(doc.pages).rows),
     raised |-> TableRows(doc.pages).raised]

\* The assignments of chase.py:330-332 under `if match:`.
SetTotals(totals, match) ==
    IF match.ok
    THEN [totals EXCEPT !.transaction_count = _safe_int(match.count),
                        !.total_volume = _safe_decimal(match.amount)]
    ELSE totals

\* The amount, or the default when `if amount:` fails.
AmountOr(amount, default) == IF IsAmount(amount) THEN amount.value ELSE default

\* One iteration of the line loop of _extract_totals.
TotalsLine(totals, line) ==
    [SetTotals(totals,
               IF Contains(<<"T","O","T","A","L","S">>, upper(line)) \/ Contains(<<"T","O","T","A","L">>, upper(line))
               THEN SearchCountAmount(<<<<"T","O","T","A","L","S">>, <<"T","O","T","A","L">>>>, line)
               ELSE NoCountAmount)
        EXCEPT !.total_fees =
            IF Contains(<<"T","O","T","A","L"," ","A","M","O","U","N","T"," ","C","H","A","R","G","E","D">>, upper(line))
            THEN AmountOr(_extract_amount_from_line(line), @)
            ELSE @]

\* The line loop of _extract_totals.
TotalsLines(lines) ==
    LET done[i \in 0..Len(lines)] ==
            IF i = 0
            THEN [total_volume |-> 0, transaction_count |-> 0, total_fees |-> 0]
            ELSE TotalsLine(done[i - 1], lines[i])
    IN  done[Len(lines)]

\* str(row[0]).upper() of a truthy first cell, "" of a falsy one.
FirstCell(row) == IF Truthy(row[1]) THEN upper(row[1]) ELSE <<>>

\* One iteration of the row loop of _extract_totals.
TotalsRow(totals, row) ==
    [totals EXCEPT
        !.total_volume =
            IF Contains(<<"T","O","T","A","L","S">>, FirstCell(row)) /\ Len(row) > 6 /\ Truthy(row[7])
            THEN _safe_decimal(row[7]) ELSE @,
        !.transaction_count =
            IF Contains(<<"T","O","T","A","L","S">>, FirstCell(row)) /\ Len(row) > 5 /\ Truthy(row[6])
            THEN _safe_int(row[6]) ELSE @,
        !.total_fees =
            IF /\ Contains(<<"T","O","T","A","L"," ","A","M","O","U","N","T"," ","C","H","A","R","G","E","D">>, FirstCell(row))
               /\ Len(row) > 1 /\ Truthy(row[Len(row)])
            THEN _safe_decimal(row[Len(row)]) ELSE @]

\* The row loop of _extract_totals.
TotalsRows(totals, rows) ==
    LET done[i \in 0..Len(rows)] ==
            IF i = 0 THEN totals ELSE TotalsRow(done[i - 1], rows[i])
    IN  done[Len(rows)]

\* The table fallback of _extract_totals after the line loop gave by_text:
\* [value, raised].
TotalsFallback(by_text, tables) ==
    IF by_text.total_volume = 0
    THEN [value |-> TotalsRows(by_text, tables.rows), raised |-> tables.raised]
    ELSE [value |-> by_text, raised |-> FALSE]

\* _extract_totals: [value, raised].
_extract_totals(full_text, doc) ==
    TotalsFallback(TotalsLines(split(full_text, "\n")), TableRows(doc.pages))
\* ----------------------------------------------------- BaseExtractor ----

\* dict.get(key, default).
Get(dict, key, default) == IF key \in DOMAIN dict THEN dict[key] ELSE default

\* The dict with dict[key] = value set.
Set(dict, key, value) ==
    [k \in DOMAIN dict \cup {key} |-> IF k = key THEN value ELSE dict[k]]

EmptyDict == <<>>

\* The truth value of a str or None.
NonEmpty(s) == s # None /\ s # <<>>

\* _calculate_confidence giving the 20 points of the fees only when some
\* fee is not zero.
_calculate_confidence_fees_found(extracted_data) ==
    LET period  == Get(extracted_data, "statement_period", EmptyDict)
        start   == NonEmpty(Get(period, "start_date", None))
        end     == NonEmpty(Get(period, "end_date", None))
        volumes == Get(extracted_data, "card_volumes", EmptyDict)
        fees    == Get(extracted_data, "fees", EmptyDict)
        totals  == Get(extracted_data, "totals", EmptyDict)
        score   == (IF NonEmpty(Get(extracted_data, "merchant_name", None))
                    THEN 20 ELSE 0)
                   + (IF start /\ end THEN 20 ELSE IF start \/ end THEN 10 ELSE 0)
                   + (IF DOMAIN volumes # {} THEN 30 ELSE 0)
                   + (IF \E k \in DOMAIN fees : fees[k] # 0 THEN 20 ELSE 0)
                   + (IF Get(totals, "total_volume", 0) # 0 THEN 10 ELSE 0)
    IN  IF score < 100 THEN score ELSE 100

_calculate_confidence(extracted_data) ==
    LET period  == Get(extracted_data, "statement_period", EmptyDict)
        start   == NonEmpty(Get(period, "start_date", None))
        end     == NonEmpty(Get(period, "end_date", None))
        volumes == Get(extracted_data, "card_volumes", EmptyDict)
        fees    == Get(extracted_data, "fees", EmptyDict)
        totals  == Get(extracted_data, "totals", EmptyDict)
        score   == (IF NonEmpty(Get(extracted_data, "merchant_name", None))
                    THEN 20 ELSE 0)
                   + (IF start /\ end THEN 20 ELSE IF start \/ end THEN 10 ELSE 0)
                   + (IF DOMAIN volumes # {} THEN 30 ELSE 0)
                   + (IF DOMAIN fees # {} THEN 20 ELSE 0)
                   + (IF Get(totals, "total_volume", 0) # 0 THEN 10 ELSE 0)
    IN  IF score < 100 THEN score ELSE 100

\* BaseExtractor.__init__: the extractor object (full_text, which extract
\* sets, is None until then).
BaseExtractor(force_ocr) ==
    [extracted_data |-> EmptyDict, confidence |-> 0, errors |-> <<>>,
     force_ocr |-> force_ocr, full_text |-> None]

\* The except branch of extract (base.py:76-80) with self.errors = errors.
Fatal(self, errors) ==
    [self EXCEPT
        !.errors = Append(errors, "Extraction error"),
        !.extracted_data = Set(Set(@, "extraction_confidence", 0),
                               "errors", Append(errors, "Extraction error"))]

\* What the except branch of an _extract_* method appends to self.errors.
Raised(stage, message) == IF stage.raised THEN <<message>> ELSE <<>>

\* base.py:51-61: the extractor after the assignments to extracted_data,
\* self.full_text being set.
Parse(self, doc) ==
    [self EXCEPT
        !.extracted_data =
            Set(Set(Set(Set(Set(Set(@,
                "processor_name", _detect_processor(self.full_text)),
                "merchant_name", _extract_merchant_name(self.full_text)),
                "statement_period", _extract_statement_period(self.full_text)),
                "card_volumes", _extract_card_volumes(self.full_text, doc).value),
                "fees", _extract_fees(self.full_text, doc).value),
                "totals", _extract_totals(self.full_text, doc).value),
        !.errors = @
            \o Raised(_extract_card_volumes(self.full_text, doc),
                      "Card volumes extraction error")
            \o Raised(_extract_fees(self.full_text, doc), "Fees extraction error")
            \o Raised(_extract_totals(self.full_text, doc), "Totals extraction error")]

\* base.py:63-72: the extractor after the confidence and raw_data are set.
Score(self, doc) ==
    [self EXCEPT
        !.confidence = _calculate_confidence(self.extracted_data),
        !.extracted_data =
            Set(Set(@, "extraction_confidence",
                    _calculate_confidence(self.extracted_data)),
                "raw_data", [page_count |-> Len(doc.pages),
                             processor  |-> self.extracted_data["processor_name"],
                             errors     |-> self.errors])]

\* extract from the return of _extract_full_text on: [self, checked].
Acquired(self, doc, acquired) ==
    [self |-> IF acquired.raised THEN Fatal(self, acquired.errors)
              ELSE Score(Parse([self EXCEPT !.full_text = acquired.text,
                                            !.errors = acquired.errors], doc), doc),
     checked |-> acquired.checked]

\* BaseExtractor.extract on the extractor self over doc, `available` being
\* what check_tesseract_installed() answers: [self, checked], the extractor
\* afterwards (extract returns its extracted_data) and whether the
\* availability check ran.
extract(self, doc, available) ==
    IF doc.corrupt THEN [self |-> Fatal(self, self.errors), checked |-> FALSE]
    ELSE Acquired(self, doc,
                  _extract_full_text(doc, self.force_ocr, available, self.errors))

\* ---------------------------------------------------- ExtractorFactory ----

\* create_extractor with a final branch that falls back on the Chase
\* extractor for a first page that names no processor.
create_extractor_chase_by_default(doc) ==
    LET first_page_text == IF doc.pages[1].text = None THEN <<>> ELSE doc.pages[1].text
        text_lower == lower(first_page_text)
    IN  IF doc.corrupt \/ doc.pages = <<>> \/ doc.pages[1].text_raises
        THEN [detected |-> "none", extractor |-> "none"]
        ELSE IF \/ Contains(<<"c","h","a","s","e"," ","p","a","y","m","e","n","t","e","c","h">>, text_lower)
                \/ Contains(<<"j",".","p",".","m","o","r","g","a","n">>, text_lower)
        THEN [detected |-> "Chase Paymentech", extractor |-> "ChaseExtractor"]
        ELSE IF Contains(<<"c","l","o","v","e","r">>, text_lower)
        THEN [detected |-> "Clover", extractor |-> "none"]
        ELSE IF Contains(<<"s","q","u","a","r","e">>, text_lower)
        THEN [detected |-> "Square", extractor |-> "none"]
        ELSE IF Contains(<<"s","t","r","i","p","e">>, text_lower)
        THEN [detected |-> "Stripe", extractor |-> "none"]
        ELSE IF Contains(<<"m","o","n","e","r","i","s">>, text_lower)
        THEN [detected |-> "Moneris", extractor |-> "none"]
        ELSE [detected |-> "Chase Paymentech", extractor |-> "ChaseExtractor"]

\* create_extractor with the Clover keyword checked before the Chase
\* signatures.
create_extractor_clover_first(doc) ==
    LET first_page_text == IF doc.pages[1].text = None THEN <<>> ELSE doc.pages[1].text
        text_lower == lower(first_page_text)
    IN  IF doc.corrupt \/ doc.pages = <<>> \/ doc.pages[1].text_raises
        THEN [detected |-> "none", extractor |-> "none"]
        ELSE IF Contains(<<"c","l","o","v","e","r">>, text_lower)
        THEN [detected |-> "Clover", extractor |-> "none"]
        ELSE IF \/ Contains(<<"c","h","a","s","e"," ","p","a","y","m","e","n","t","e","c","h">>, text_lower)
                \/ Contains(<<"j",".","p",".","m","o","r","g","a","n">>, text_lower)
        THEN [detected |-> "Chase Paymentech", extractor |-> "ChaseExtractor"]
        ELSE IF Contains(<<"s","q","u","a","r","e">>, text_lower)
        THEN [detected |-> "Square", extractor |-> "none"]
        ELSE IF Contains(<<"s","t","r","i","p","e">>, text_lower)
        THEN [detected |-> "Stripe", extractor |-> "none"]
        ELSE IF Contains(<<"m","o","n","e","r","i","s">>, text_lower)
        THEN [detected |-> "Moneris", extractor |-> "none"]
        ELSE [detected |-> "none", extractor |-> "none"]

\* ExtractorFactory.create_extractor: the processor the chain of
\* factory.py:38-71 detects and the extractor class it returns ("none" for None).
create_extractor(doc) ==
    LET first_page_text == IF doc.pages[1].text = None THEN <<>> ELSE doc.pages[1].text
        text_lower == lower(first_page_text)
    IN  IF doc.corrupt \/ doc.pages = <<>> \/ doc.pages[1].text_raises
        THEN [detected |-> "none", extractor |-> "none"]
        ELSE IF \/ Contains(<<"c","h","a","s","e"," ","p","a","y","m","e","n","t","e","c","h">>, text_lower)
                \/ Contains(<<"j",".","p",".","m","o","r","g","a","n">>, text_lower)
        THEN [detected |-> "Chase Paymentech", extractor |-> "ChaseExtractor"]
        ELSE IF Contains(<<"c","l","o","v","e","r">>, text_lower)
        THEN [detected |-> "Clover", extractor |-> "none"]
        ELSE IF Contains(<<"s","q","u","a","r","e">>, text_lower)
        THEN [detected |-> "Square", extractor |-> "none"]
        ELSE IF Contains(<<"s","t","r","i","p","e">>, text_lower)
        THEN [detected |-> "Stripe", extractor |-> "none"]
        ELSE IF Contains(<<"m","o","n","e","r","i","s">>, text_lower)
        THEN [detected |-> "Moneris", extractor |-> "none"]
        ELSE [detected |-> "none", extractor |-> "none"]

\* factory.py:98-101: what extract_from_file returns of an extraction r.
Extracted(r) ==
    [data |-> Set(r.self.extracted_data, "success", TRUE),
     checked |-> r.checked, extracted |-> TRUE]

\* ExtractorFactory.extract_from_file: [data, checked, extracted], the dict
\* returned, whether the availability check ran, and whether extract() ran.
extract_from_file(doc, available) ==
    IF create_extractor(doc).extractor = "none"
    THEN [data |-> [success |-> FALSE,
                    error |-> "Could not detect processor type or processor not supported",
                    extraction_confidence |-> 0],
          checked |-> FALSE, extracted |-> FALSE]
    ELSE Extracted(extract(BaseExtractor(TRUE), doc, available))
\* ------------------------------------------ StatementProcessingService ----

REVIEW_THRESHOLD == 80

\* datetime.strptime(s, '%Y-%m-%d').date() read back with str(): the ISO
\* date again, None when strptime raises.
strptime_date(s) ==
    LET parts == split(s, "-")
        y == DigitsValue(parts[1])
        m == DigitsValue(parts[2])
        d == DigitsValue(parts[3])
    IN  IF /\ Len(parts) = 3
           /\ \A i \in 1..3 : parts[i] # <<>> /\ AllDigits(parts[i])
           /\ Len(parts[1]) = 4 /\ Len(parts[2]) <= 2 /\ Len(parts[3]) <= 2
           /\ y >= 1 /\ m \in 1..12 /\ d >= 1 /\ d <= DaysIn(y, m)
        THEN strftime(y, m, d)
        ELSE None

\* _update_statement_metadata flagging a confidence of exactly the
\* threshold for review too.
_update_statement_metadata_review_at_threshold(statement, extracted_data) ==
    LET merchant_name == Get(extracted_data, "merchant_name", None)
        processor_name == Get(extracted_data, "processor_name", "")
        period == Get(extracted_data, "statement_period", EmptyDict)
        start  == Get(period, "start_date", None)
        end    == Get(period, "end_date", None)
        confidence == Get(extracted_data, "extraction_confidence", 0)
        errors == Get(Get(extracted_data, "raw_data", EmptyDict), "errors", <<>>)
    IN  [statement EXCEPT
            !.merchant_name = IF NonEmpty(merchant_name) THEN merchant_name ELSE @,
            !.processor_name = IF processor_name # "" THEN processor_name ELSE @,
            !.statement_period_start =
                IF NonEmpty(start) THEN Coalesce(strptime_date(start), @) ELSE @,
            !.statement_period_end =
                IF NonEmpty(end) THEN Coalesce(strptime_date(end), @) ELSE @,
            !.extraction_confidence = Some(confidence),
            !.requires_review = confidence <= REVIEW_THRESHOLD,
            !.extraction_notes = IF errors # <<>> THEN errors ELSE @]

\* StatementProcessingService._update_statement_metadata: the statement as
\* it is saved.  extraction_notes holds the messages that '; '.join joins.
_update_statement_metadata(statement, extracted_data) ==
    LET merchant_name == Get(extracted_data, "merchant_name", None)
        processor_name == Get(extracted_data, "processor_name", "")
        period == Get(extracted_data, "statement_period", EmptyDict)
        start  == Get(period, "start_date", None)
        end    == Get(period, "end_date", None)
        confidence == Get(extracted_data, "extraction_confidence", 0)
        errors == Get(Get(extracted_data, "raw_data", EmptyDict), "errors", <<>>)
    IN  [statement EXCEPT
            !.merchant_name = IF NonEmpty(merchant_name) THEN merchant_name ELSE @,
            !.processor_name = IF processor_name # "" THEN processor_name ELSE @,
            !.statement_period_start =
                IF NonEmpty(start) THEN Coalesce(strptime_date(start), @) ELSE @,
            !.statement_period_end =
                IF NonEmpty(end) THEN Coalesce(strptime_date(end), @) ELSE @,
            !.extraction_confidence = Some(confidence),
            !.requires_review = confidence < REVIEW_THRESHOLD,
            !.extraction_notes = IF errors # <<>> THEN errors ELSE @]

\* A Decimal as a DecimalField with two decimal places stores it: rounded
\* half-even to a whole number of cents.
Quantize2(v) ==
    IF v % 2 = 0 THEN v
    ELSE IF ((v - 1) \div 2) % 2 = 0 THEN v - 1 ELSE v + 1

Pow10(n) ==
    LET done[i \in 0..n] == IF i = 0 THEN 1 ELSE 10 * done[i - 1]
    IN  done[n]

\* num / den as a DecimalField with four decimal places stores it, in
\* units of 0.0001, rounded half-even; num >= 0 and den > 0.
ScaledQuotient(num, den, places) ==
    LET digits[k \in 0..places] ==
            IF k = 0 THEN [q |-> num \div den, r |-> num % den]
            ELSE [q |-> 10 * digits[k - 1].q + (10 * digits[k - 1].r) \div den,
                  r |-> (10 * digits[k - 1].r) % den]
        q == digits[places].q
        r == digits[places].r
    IN  IF 2 * r > den \/ (2 * r = den /\ q % 2 = 1) THEN q + 1 ELSE q

RATE_MAX_DIGITS == 5

RATE_DECIMAL_PLACES == 4

\* StatementProcessingService._create_statement_data: [raised, row], the
\* StatementData row update_or_create writes (raw_data apart), or raised
\* when the effective rate does not fit its column
\* (max_digits=5, decimal_places=4).
_create_statement_data(extracted_data) ==
    LET totals == Get(extracted_data, "totals", EmptyDict)
        total_volume == Get(totals, "total_volume", 0)
        total_fees == Get(totals, "total_fees", 0)
        card_volumes == Get(extracted_data, "card_volumes", EmptyDict)
        fees == Get(extracted_data, "fees", EmptyDict)
        Card(n) == Get(card_volumes, n, EmptyDict)
        rated == total_volume > 0 /\ total_fees > 0
        rate == ScaledQuotient(100 * total_fees, total_volume, RATE_DECIMAL_PLACES)
    IN  IF rated /\ rate >= Pow10(RATE_MAX_DIGITS)
        THEN [raised |-> TRUE, row |-> EmptyDict]
        ELSE [raised |-> FALSE, row |->
              [total_volume      |-> Quantize2(total_volume),
               transaction_count |-> Get(totals, "transaction_count", 0),
               visa_volume       |-> Quantize2(Get(Card("visa"), "volume", 0)),
               visa_count        |-> Get(Card("visa"), "count", 0),
               mastercard_volume |-> Quantize2(Get(Card("mastercard"), "volume", 0)),
               mastercard_count  |-> Get(Card("mastercard"), "count", 0),
               amex_volume       |-> Quantize2(Get(Card("amex"), "volume", 0)),
               amex_count        |-> Get(Card("amex"), "count", 0),
               discover_volume   |-> Quantize2(Get(Card("discover"), "volume", 0)),
               discover_count    |-> Get(Card("discover"), "count", 0),
               interac_volume    |-> Quantize2(Get(Card("interac"), "volume", 0)),
               interac_count     |-> Get(Card("interac"), "count", 0),
               interchange_fees  |-> Quantize2(Get(fees, "interchange_fees", 0)),
               assessment_fees   |-> Quantize2(Get(fees, "assessment_fees", 0)),
               processing_fees   |-> Quantize2(Get(fees, "processing_fees", 0)),
               monthly_fees      |-> Quantize2(Get(fees, "monthly_fees", 0)),
               other_fees        |-> Quantize2(Get(fees, "other_fees", 0)),
               effective_rate    |-> IF rated THEN Some(rate) ELSE Null]]

\* ---------------------------------------------------------- documents ----

Page(text) ==
    [text |-> text, text_raises |-> FALSE, tables |-> <<>>, tables_raise |-> FALSE]

TablePage(text, table) ==
    [text |-> text, text_raises |-> FALSE, tables |-> <<table>>, tables_raise |-> FALSE]

Document(pages) == [corrupt |-> FALSE, reopen_raises |-> FALSE, pages |-> pages]

\* A complete statement with a text layer.
CompleteText ==
    <<"C","H","A","S","E"," ","P","A","Y","M","E","N","T","E","C","H","\n","A","C","M","E"," ","F","O","O","D","S"," ","I","N","C","\n","A","T","T","N",":"," ","J"," ","S","M","I","T","H","\n","S","t","a","t","e","m","e","n","t"," ","P","e","r","i","o","d"," ","1","-","J","u","n","-","2","0","2","4"," ","-"," ","3","0","-","J","u","n","-","2","0","2","4","\n","V","I","S","A"," ","9","8"," ","$","7","3",",","2","3","9",".","9","9","\n","M","A","S","T","E","R","C","A","R","D"," ","6","7"," ","$","7","3",",","4","7","8",".","4","4","\n","T","o","t","a","l","s"," ","1","6","5"," ","$","1","4","6",",","7","1","8",".","4","3","\n","I","n","t","e","r","c","h","a","n","g","e"," ","F","e","e","s"," ","T","o","t","a","l"," ","$","1",",","2","3","4",".","5","6","\n","T","o","t","a","l"," ","A","m","o","u","n","t"," ","C","h","a","r","g","e","d"," ","$","2",",","0","0","0",".","0","0">>

\* A card type summary table with returns: gross sales, credits, net sales.
SummaryTable ==
    << <<<<"C","a","r","d"," ","T","y","p","e">>, <<"N","u","m","b","e","r"," ","o","f"," ","S","a","l","e","s">>, <<"S","a","l","e","s">>, <<"N","u","m","b","e","r"," ","o","f"," ","C","r","e","d","i","t","s">>,
         <<"C","r","e","d","i","t","s">>, <<"T","o","t","a","l"," ","N","u","m","b","e","r"," ","o","f"," ","I","t","e","m","s">>, <<"N","e","t"," ","S","a","l","e","s">>, <<"A","v","e","r","a","g","e"," ","T","i","c","k","e","t">>>>,
       <<<<"V","I","S","A">>, <<"9","8">>, <<"7","3","2","3","9",".","9","9">>, <<"2">>, <<"1","3","9",".","9","9">>, <<"1","0","0">>, <<"7","3","1","0","0",".","0","0">>, <<"7","4","5",".","9","2">>>>,
       <<<<"D","i","s","c","o","v","e","r">>, <<"1">>, <<"1","0",".","0","0">>, None, None, <<"1">>, <<"0",".","0","0">>, <<"1","0",".","0","0">>>>,
       <<<<"T","o","t","a","l","s">>, <<"9","9">>, <<"7","3",",","2","4","9",".","9","9">>, <<"2">>, <<"1","3","9",".","9","9">>, <<"1","0","1">>, <<"7","3",",","1","1","0",".","0","0">>, <<>>>>,
       <<<<"I","n","t","e","r","c","h","a","n","g","e"," ","F","e","e","s"," ","T","o","t","a","l">>, None, <<"$","3","5","0",".","0","0">>>> >>

DOCS ==
    << \* 1: a complete Chase statement, text layer only
       Document(<<Page(CompleteText)>>),
       \* 2: a scanned Chase statement: signature line and a summary table
       Document(<<TablePage(<<"C","h","a","s","e"," ","P","a","y","m","e","n","t","e","c","h">>, SummaryTable)>>),
       \* 3: a Chase statement whose table shows credits, parenthesized or
       \* minus-signed
       Document(<<TablePage(<<"J",".","P",".","M","o","r","g","a","n","\n","M","e","r","c","h","a","n","t"," ","s","t","a","t","e","m","e","n","t">>,
           << <<<<"V","I","S","A">>, <<"-","3">>, <<"(","1","0","0",".","0","0",")">>>>,
              <<<<"M","A","S","T","E","R","C","A","R","D">>, <<"2">>, <<"5","0",".","0","0">>, <<"4">>, <<"(","8","0",".","0","0",")">>, <<"6">>, <<"-","3","0",".","0","0">>, <<>>>>,
              <<<<"T","o","t","a","l","s">>, <<"5">>, <<>>, <<>>, <<>>, <<"-","1">>, <<"(","1","3","0",".","0","0",")">>>> >>)>>),
       \* 4: a Chase statement whose second page cannot be read
       Document(<<Page(CompleteText),
                  [text |-> None, text_raises |-> TRUE, tables |-> <<>>, tables_raise |-> TRUE]>>),
       \* 5: a statement of no known processor
       Document(<<Page(<<"M","o","n","t","h","l","y"," ","a","c","c","o","u","n","t"," ","s","u","m","m","a","r","y","\n","V","I","S","A"," ","5"," ","$","1","0",".","0","0">>)>>),
       \* 6: a statement of a processor detected but not implemented
       Document(<<Page(<<"C","l","o","v","e","r"," ","m","e","r","c","h","a","n","t"," ","s","t","a","t","e","m","e","n","t","\n","T","o","t","a","l","s"," ","5"," ","$","1","0",".","0","0">>)>>),
       \* 7: a file pdfplumber cannot open
       [corrupt |-> TRUE, reopen_raises |-> TRUE, pages |-> <<>>],
       \* 8: a Chase statement with nothing but the merchant name
       Document(<<Page(<<"C","h","a","s","e"," ","P","a","y","m","e","n","t","e","c","h","\n","A","C","M","E"," ","F","O","O","D","S"," ","I","N","C">>)>>),
       \* 9: a Chase statement whose charges are half its volume
       Document(<<Page(<<"C","h","a","s","e"," ","P","a","y","m","e","n","t","e","c","h","\n","T","o","t","a","l","s"," ","1"," ","$","1","0",".","0","0","\n","T","o","t","a","l"," ","A","m","o","u","n","t"," ","C","h","a","r","g","e","d"," ","$","5",".","0","0">>)>>),
       \* 10: a Chase statement with a period whose end date does not exist
       Document(<<Page(<<"C","h","a","s","e"," ","P","a","y","m","e","n","t","e","c","h","\n","A","C","M","E"," ","F","O","O","D","S"," ","I","N","C","\n","S","t","a","t","e","m","e","n","t"," ","P","e","r","i","o","d"," ","1","-","J","u","n","-","2","0","2","4"," ","-"," ","3","1","-","J","u","n","-","2","0","2","4">>)>>),
       \* 11: a Chase statement with its signature alone and a page without text
       Document(<<Page(<<"c","h","a","s","e"," ","p","a","y","m","e","n","t","e","c","h">>), Page(None)>>),
       \* 12: a PDF without pages
       Document(<<>>),
       \* 13: a complete Chase statement followed by a second page of text
       Document(<<Page(CompleteText), Page(<<"P","a","g","e"," ","2"," ","o","f"," ","2">>)>>),
       \* 14: two pages of little text
       Document(<<Page(<<"C","h","a","s","e"," ","P","a","y","m","e","n","t","e","c","h">>), Page(<<"P","a","g","e"," ","2"," ","o","f"," ","2">>)>>),
       \* 15: a complete Chase statement the fallback fails to open
       [corrupt |-> FALSE, reopen_raises |-> TRUE, pages |-> <<Page(CompleteText)>>],
       \* 16: a Chase statement of little text the fallback fails to open
       [corrupt |-> FALSE, reopen_raises |-> TRUE,
        pages |-> <<Page(<<"C","h","a","s","e"," ","P","a","y","m","e","n","t","e","c","h","\n","A","C","M","E"," ","F","O","O","D","S"," ","I","N","C">>)>>],
       \* 17: a Chase statement that names another brand first
       Document(<<Page(<<"C","l","o","v","e","r"," ","t","e","r","m","i","n","a","l"," ","r","e","n","t","a","l","\n","C","h","a","s","e"," ","P","a","y","m","e","n","t","e","c","h","\n","T","o","t","a","l","s"," ","2"," ","$","2","0",".","0","0">>)>>),
       \* 18: a statement with the Chase signature on its second page only
       Document(<<Page(<<"M","e","r","c","h","a","n","t"," ","s","t","a","t","e","m","e","n","t">>), Page(<<"C","h","a","s","e"," ","P","a","y","m","e","n","t","e","c","h">>)>>),
       \* 19: a scanned Chase statement whose table has two rows for Visa
       Document(<<TablePage(<<"C","h","a","s","e"," ","P","a","y","m","e","n","t","e","c","h">>,
           << <<<<"V","I","S","A">>, <<"9","8">>, <<"7","3","2","3","9",".","9","9">>, <<"2">>, <<"1","3","9",".","9","9">>, <<"1","0","0">>, <<"7","3","1","0","0",".","0","0">>, <<"7","4","5",".","9","2">>>>,
              <<<<"V","I","S","A"," ","D","E","B","I","T">>, <<"1","0">>, <<"5","0","0",".","0","0">>, None, None, <<"1","0">>, <<"5","0","0",".","0","0">>, <<"5","0",".","0","0">>>> >>)>>),
       \* 20: a Chase statement with a text layer and no fee line
       Document(<<Page(<<"C","H","A","S","E"," ","P","A","Y","M","E","N","T","E","C","H","\n","A","C","M","E"," ","F","O","O","D","S"," ","I","N","C","\n","S","t","a","t","e","m","e","n","t"," ","P","e","r","i","o","d"," ","1","-","J","u","n","-","2","0","2","4"," ","-"," ","3","0","-","J","u","n","-","2","0","2","4","\n","V","I","S","A"," ","9","8"," ","$","7","3",",","2","3","9",".","9","9","\n","T","o","t","a","l","s"," ","1","6","5"," ","$","1","4","6",",","7","1","8",".","4","3">>)>>),
       \* 21: a Chase statement with an assessment line and the combined total
       Document(<<Page(<<"C","h","a","s","e"," ","P","a","y","m","e","n","t","e","c","h","\n","A","s","s","e","s","s","m","e","n","t"," ","F","e","e","s"," ","$","3","0",".","0","0","\n","F","e","e","s"," ","A","n","d"," ","A","s","s","e","s","s","m","e","n","t","s"," ","T","o","t","a","l"," ","$","1","0","0",".","0","0">>)>>),
       \* 22: a scanned Chase statement whose fees stand in a table only
       Document(<<TablePage(<<"C","h","a","s","e"," ","P","a","y","m","e","n","t","e","c","h">>,
           << <<<<"I","n","t","e","r","c","h","a","n","g","e"," ","F","e","e","s"," ","T","o","t","a","l">>, None, <<"$","3","5","0",".","0","0">>>>,
              <<<<"A","s","s","e","s","s","m","e","n","t"," ","F","e","e","s">>, None, <<"$","1","2",".","0","0">>>>,
              <<<<"F","e","e","s"," ","A","n","d"," ","A","s","s","e","s","s","m","e","n","t","s"," ","T","o","t","a","l">>, None, <<"$","4","0",".","0","0">>>>,
              <<<<"M","o","n","t","h","l","y"," ","F","e","e">>, None, <<"$","2","5",".","0","0">>>>,
              <<<<"O","t","h","e","r"," ","C","h","a","r","g","e","s">>, None, <<"$","3",".","0","0">>>> >>)>>),
       \* 23: a Chase statement with a Visa line in its text and a table
       \* that names Mastercard and Visa
       Document(<<TablePage(<<"C","h","a","s","e"," ","P","a","y","m","e","n","t","e","c","h","\n","V","I","S","A"," ","9","8"," ","$","7","3",",","2","3","9",".","9","9">>,
           << <<<<"V","I","S","A">>, <<"1","0","0">>, <<"7","5","0","0","0",".","0","0">>, None, None, <<"1","0","0">>, <<"7","5","0","0","0",".","0","0">>, <<>>>>,
              <<<<"M","A","S","T","E","R","C","A","R","D">>, <<"6","7">>, <<"7","3","4","7","8",".","4","4">>, None, None, <<"6","7">>, <<"7","3","4","7","8",".","4","4">>, <<>>>> >>)>>),
       \* 24: a scanned Chase statement whose table has a sub-total row after
       \* its Totals row
       Document(<<TablePage(<<"C","h","a","s","e"," ","P","a","y","m","e","n","t","e","c","h">>,
           << <<<<"T","o","t","a","l","s">>, <<"9","9">>, <<"7","3",",","2","4","9",".","9","9">>, <<"2">>, <<"1","3","9",".","9","9">>, <<"1","0","1">>, <<"7","3",",","1","1","0",".","0","0">>, <<>>>>,
              <<<<"D","e","b","i","t"," ","S","u","b"," ","T","o","t","a","l","s">>, <<"5">>, <<"1","0","0",".","0","0">>, None, None, <<"5">>, <<"1","0","0",".","0","0">>, <<>>>> >>)>>),
       \* 25: a Chase statement of 72 characters followed by a page of 30
       \* blanks
       Document(<<Page(<<"C","h","a","s","e"," ","P","a","y","m","e","n","t","e","c","h","\n","A","C","M","E"," ","F","O","O","D","S"," ","I","N","C","\n","V","I","S","A"," ","9","8"," ","$","7","3",",","2","3","9",".","9","9","\n","T","o","t","a","l","s"," ","1","6","5"," ","$","1","4","6",",","7","1","8",".","4","3">>),
                  Page(<<" "," "," "," "," "," "," "," "," "," "," "," "," "," "," "," "," "," "," "," "," "," "," "," "," "," "," "," "," "," ">>)>>) >>

\* ------------------------------------------------------------- state ----

MaxStatements == 1
MaxLen == 3
MaxAnalyses == 1
MaxPricingModels == 2

MaxCalls == 2

VARIABLES
    LLM_AVAILABLE,   \* ocr_helper.LLM_AVAILABLE: groq and pdfplumber import
    GROQ_API_KEY,    \* whether settings or the environment hold an API key
    _groq_client,    \* OCRHelper._groq_client, shared by every extraction
    statements,      \* the MerchantStatement rows, by id
    statement_data,  \* the StatementData rows, by statement id
    calls,           \* by statement id, the process_uploaded_statement call
                     \* on it: where it stands, the dict extract_from_file
                     \* gave it, whether extract() ran, and what it returned
    extractor,       \* an extractor a caller holds: [self, file], or Nothing
    results,         \* the dicts its extract() calls returned, in order
    parsed,          \* a value handed to _safe_decimal and, once the call
                     \* has returned, what it returned
    analyses,        \* the Analysis rows, by id, each with the status of
                     \* the last answer to import-from-statement (0: none)
    pricing_models   \* the PricingModel rows, by id

vars == <<LLM_AVAILABLE, GROQ_API_KEY, _groq_client, statements, statement_data,
          calls, extractor, results, parsed, analyses, pricing_models>>

Nothing == [file |-> 0]

Files == 1..Len(DOCS)

\* A new MerchantStatement row with the defaults of models.py.
MerchantStatement(source, status, file) ==
    [source |-> source, status |-> status, file |-> file,
     merchant_name |-> <<>>, processor_name |-> "",
     statement_period_start |-> None, statement_period_end |-> None,
     extraction_confidence |-> Null, requires_review |-> FALSE,
     extraction_notes |-> <<>>, processed_at |-> "null"]

NoCall == [pc |-> "idle", data |-> EmptyDict, extracted |-> FALSE, returned |-> "none"]

Ids == 1..Len(statements)

EnvInit ==
    /\ LLM_AVAILABLE \in BOOLEAN
    /\ GROQ_API_KEY \in BOOLEAN
    /\ _groq_client = None

\* No call of _safe_decimal under way.
NoAmount == [value |-> None, called |-> FALSE, special |-> FALSE, result |-> 0]

Init ==
    /\ EnvInit
    /\ statements = <<>>
    /\ statement_data = EmptyDict
    /\ calls = <<>>
    /\ extractor = Nothing
    /\ results = <<>>
    /\ parsed = NoAmount
    /\ analyses = <<>>
    /\ pricing_models = <<>>

\* FileUploadView.post up to its call of process_uploaded_statement: the
\* row is created PENDING with the file, and the call is about to start.
Upload(file) ==
    /\ Len(statements) < MaxStatements
    /\ statements' = Append(statements, MerchantStatement("UPLOAD", "PENDING", file))
    /\ calls' = Append(calls, [NoCall EXCEPT !.pc = "called"])
    /\ UNCHANGED <<pricing_models, analyses, parsed, LLM_AVAILABLE, GROQ_API_KEY, _groq_client, statement_data,
                   extractor, results>>

\* The request bodies of manual entry: (period_start, period_end,
\* total_volume, transaction_count).
MANUAL_ENTRIES ==
    { [merchant_name |-> <<"A","C","M","E">>, period_start |-> <<"2","0","2","4","-","0","6","-","0","1">>,
       period_end |-> <<"2","0","2","4","-","0","6","-","3","0">>, total_volume |-> 200000,
       transaction_count |-> 12, monthly_fees |-> 5000],
      [merchant_name |-> <<"A","C","M","E">>, period_start |-> <<"2","0","2","4","-","0","7","-","0","1">>,
       period_end |-> <<"2","0","2","4","-","0","6","-","3","0">>, total_volume |-> 200000,
       transaction_count |-> 12, monthly_fees |-> 0],
      [merchant_name |-> <<"A","C","M","E">>, period_start |-> <<"2","0","2","4","-","0","6","-","0","1">>,
       period_end |-> <<"2","0","2","4","-","0","6","-","3","0">>, total_volume |-> 200000,
       transaction_count |-> 0, monthly_fees |-> 0] }

\* An ISO date as a number that orders as the date does.
DateOrdinal(s) ==
    DigitsValue(SubSeq(s, 1, 4)) * 10000 + DigitsValue(SubSeq(s, 6, 7)) * 100
        + DigitsValue(SubSeq(s, 9, 10))

\* ManualEntrySerializer: is_valid().
ManualEntrySerializer(data) ==
    /\ data.merchant_name # <<>>
    /\ data.transaction_count >= 1
    /\ DateOrdinal(data.period_start) <= DateOrdinal(data.period_end)

\* ManualEntryView.post: a valid body creates a COMPLETED statement and its
\* StatementData; an invalid one is answered 400 and changes nothing.
ManualEntry(data) ==
    /\ Len(statements) < MaxStatements
    /\ ManualEntrySerializer(data)
    /\ statements' = Append(statements,
           [MerchantStatement("MANUAL", "COMPLETED", 0) EXCEPT
               !.merchant_name = data.merchant_name,
               !.statement_period_start = data.period_start,
               !.statement_period_end = data.period_end,
               !.processed_at = "now"])
    /\ statement_data' = Set(statement_data, Len(statements) + 1,
           [_create_statement_data(EmptyDict).row EXCEPT
               !.total_volume = data.total_volume,
               !.transaction_count = data.transaction_count,
               !.monthly_fees = data.monthly_fees])
    /\ calls' = Append(calls, NoCall)
    /\ UNCHANGED <<pricing_models, analyses, parsed, LLM_AVAILABLE, GROQ_API_KEY, _groq_client, extractor, results>>

\* The admin's add form saved with the model's defaults and no file.
AdminAdd ==
    /\ Len(statements) < MaxStatements
    /\ statements' = Append(statements, MerchantStatement("UPLOAD", "PENDING", 0))
    /\ calls' = Append(calls, NoCall)
    /\ UNCHANGED <<pricing_models, analyses, parsed, LLM_AVAILABLE, GROQ_API_KEY, _groq_client, statement_data,
                   extractor, results>>

\* process_uploaded_statement(statement) entered, services.py:46-56: a
\* statement without a file is saved FAILED and False returned; any other is
\* saved PROCESSING.
Process(id) ==
    /\ calls[id].pc \in {"called", "idle"}
    /\ IF statements[id].file = 0
       THEN /\ statements' = [statements EXCEPT ![id] = [@ EXCEPT
                   !.status = "FAILED",
                   !.extraction_notes = <<"No file attached to statement">>]]
            /\ calls' = [calls EXCEPT ![id] = [NoCall EXCEPT !.returned = "False"]]
       ELSE /\ statements' = [statements EXCEPT ![id].status = "PROCESSING"]
            /\ calls' = [calls EXCEPT ![id] = [NoCall EXCEPT !.pc = "extract"]]
    /\ UNCHANGED <<pricing_models, analyses, parsed, LLM_AVAILABLE, GROQ_API_KEY, _groq_client, statement_data,
                   extractor, results>>

\* extract_from_file on each stored file, for each answer of the fallback's
\* availability check: what the call gives depends on nothing else.
EXTRACTIONS ==
    { [file |-> file, available |-> available,
       got |-> extract_from_file(DOCS[file], available)] :
          file \in Files, available \in BOOLEAN }

ExtractorFactory_extract_from_file(file, available) ==
    (CHOOSE e \in EXTRACTIONS : e.file = file /\ e.available = available).got

\* services.py:67-74 with extracted_data = got.data: the FAILED save when it
\* reports no success; cache is the shared client if the check ran.
SaveExtraction(id, got, cache) ==
    /\ _groq_client' = IF got.checked THEN cache ELSE _groq_client
    /\ IF ~Get(got.data, "success", FALSE)
       THEN /\ statements' = [statements EXCEPT ![id] = [@ EXCEPT
                   !.status = "FAILED",
                   !.extraction_notes =
                       <<Get(got.data, "error", "Unknown extraction error")>>,
                   !.extraction_confidence = Some(0)]]
            /\ calls' = [calls EXCEPT ![id] = [@ EXCEPT
                   !.pc = "idle", !.data = got.data,
                   !.extracted = got.extracted, !.returned = "False"]]
       ELSE /\ statements' = statements
            /\ calls' = [calls EXCEPT ![id] = [@ EXCEPT
                   !.pc = "metadata", !.data = got.data,
                   !.extracted = got.extracted]]

\* services.py:58-74: extract_from_file, and the FAILED save when it reports
\* no success.
ProcessExtract(id) ==
    /\ calls[id].pc = "extract"
    /\ SaveExtraction(id,
           ExtractorFactory_extract_from_file(statements[id].file,
               check_llm_installed(LLM_AVAILABLE, _groq_client, GROQ_API_KEY).ok),
           check_llm_installed(LLM_AVAILABLE, _groq_client, GROQ_API_KEY).cache)
    /\ UNCHANGED <<pricing_models, analyses, parsed, LLM_AVAILABLE, GROQ_API_KEY, statement_data, extractor, results>>

\* services.py:77: _update_statement_metadata and its save.
ProcessMetadata(id) ==
    /\ calls[id].pc = "metadata"
    /\ statements' = [statements EXCEPT
           ![id] = _update_statement_metadata(@, calls[id].data)]
    /\ calls' = [calls EXCEPT ![id].pc = "data"]
    /\ UNCHANGED <<pricing_models, analyses, parsed, LLM_AVAILABLE, GROQ_API_KEY, _groq_client, statement_data,
                   extractor, results>>

\* ProcessData without the handler of services.py:90-95: the exception ends
\* the call and the row stays as the last save left it.
ProcessData_unhandled(id) ==
    /\ calls[id].pc = "data"
    /\ IF _create_statement_data(calls[id].data).raised
       THEN /\ calls' = [calls EXCEPT ![id] = [@ EXCEPT
                   !.pc = "idle", !.returned = "False"]]
            /\ statement_data' = statement_data
       ELSE /\ statement_data' = Set(statement_data, id,
                   _create_statement_data(calls[id].data).row)
            /\ calls' = [calls EXCEPT ![id].pc = "complete"]
    /\ UNCHANGED <<pricing_models, analyses, parsed, LLM_AVAILABLE, GROQ_API_KEY, _groq_client,
                   extractor, results, statements>>

\* services.py:80 and 90-95: _create_statement_data, and the handler's FAILED
\* save when it raises.
ProcessData(id) ==
    /\ calls[id].pc = "data"
    /\ IF _create_statement_data(calls[id].data).raised
       THEN /\ statements' = [statements EXCEPT ![id] = [@ EXCEPT
                   !.status = "FAILED",
                   !.extraction_notes = <<"Processing error">>]]
            /\ calls' = [calls EXCEPT ![id] = [@ EXCEPT
                   !.pc = "idle", !.returned = "False"]]
            /\ statement_data' = statement_data
       ELSE /\ statement_data' = Set(statement_data, id,
                   _create_statement_data(calls[id].data).row)
            /\ calls' = [calls EXCEPT ![id].pc = "complete"]
            /\ statements' = statements
    /\ UNCHANGED <<pricing_models, analyses, parsed, LLM_AVAILABLE, GROQ_API_KEY, _groq_client, extractor, results>>

\* services.py:82-88: the COMPLETED save, and True returned.
ProcessComplete(id) ==
    /\ calls[id].pc = "complete"
    /\ statements' = [statements EXCEPT ![id] = [@ EXCEPT
           !.status = "COMPLETED", !.processed_at = "now"]]
    /\ calls' = [calls EXCEPT ![id] = [@ EXCEPT !.pc = "idle", !.returned = "True"]]
    /\ UNCHANGED <<pricing_models, analyses, parsed, LLM_AVAILABLE, GROQ_API_KEY, _groq_client, statement_data,
                   extractor, results>>

\* A new Analysis row linked to the statement (0: to none), status DRAFT,
\* its nullable numbers all as entered (left empty, or a figure); the
\* timestamps save() keeps are left out.
Analysis(statement, entered) ==
    [statement |-> statement, response |-> 0, status |-> "DRAFT",
     current_transaction_fees |-> entered,
     monthly_volume |-> entered, current_processing_rate |-> entered,
     current_monthly_fees |-> entered, monthly_transaction_count |-> entered,
     interchange_total |-> entered, interac_txn_count |-> entered,
     visa_volume |-> entered, mc_volume |-> entered, amex_volume |-> entered]

\* AnalysisListCreateView.create: a new analysis, linked to a statement or
\* to none.
AnalysisCreate(statement, entered) ==
    /\ Len(analyses) < MaxAnalyses
    /\ analyses' = Append(analyses, Analysis(statement, entered))
    /\ UNCHANGED <<pricing_models, parsed, LLM_AVAILABLE, GROQ_API_KEY, _groq_client, statements,
                   statement_data, calls, extractor, results>>

\* The assignment made whatever the extracted value is.
Positive_unconditional(field, old) == Some(field)

\* `if data.field and data.field > 0:` with its assignment, views.py:926-960.
Positive(field, old) == IF field > 0 THEN Some(field) ELSE old

\* views.py:926-962: the analysis row after the fields of the StatementData
\* row `data` are copied into it, answered 200. round(rate, 2) of a Decimal
\* with four decimal places is half-even, from units of 0.0001 to units of
\* 0.01.
Imported(row, data) ==
    [row EXCEPT
        !.response = 200,
        !.monthly_volume = Positive(data.total_volume, @),
        !.current_processing_rate =
            IF data.effective_rate.ok /\ data.effective_rate.value > 0
            THEN LET rate == data.effective_rate.value
                 IN  Some(IF \/ rate % 100 > 50
                             \/ (rate % 100 = 50 /\ (rate \div 100) % 2 = 1)
                          THEN rate \div 100 + 1 ELSE rate \div 100)
            ELSE @,
        !.current_monthly_fees = Positive(data.monthly_fees, @),
        !.monthly_transaction_count = Positive(data.transaction_count, @),
        !.interchange_total = Positive(data.interchange_fees, @),
        !.interac_txn_count = Positive(data.interac_count, @),
        !.visa_volume = Positive(data.visa_volume, @),
        !.mc_volume = Positive(data.mastercard_volume, @),
        !.amex_volume = Positive(data.amex_volume, @)]

\* AnalysisImportFromStatementView.post on the analysis pk: 400 without a
\* linked statement, for a statement that is not COMPLETED, and for one
\* without StatementData; otherwise the extracted values are copied.
ImportFromStatement(pk) ==
    /\ analyses' = [analyses EXCEPT ![pk] =
           IF \/ @.statement = 0
              \/ statements[@.statement].status # "COMPLETED"
              \/ @.statement \notin DOMAIN statement_data
           THEN [@ EXCEPT !.response = 400]
           ELSE Imported(@, statement_data[@.statement])]
    /\ UNCHANGED <<pricing_models, parsed, LLM_AVAILABLE, GROQ_API_KEY, _groq_client, statements,
                   statement_data, calls, extractor, results>>

\* The change form of MerchantStatementAdmin saved by a reviewer with
\* requires_review unticked.
AdminReview(id) ==
    /\ statements[id].requires_review
    /\ statements' = [statements EXCEPT ![id].requires_review = FALSE]
    /\ UNCHANGED <<pricing_models, analyses, parsed, LLM_AVAILABLE, GROQ_API_KEY, _groq_client,
                   statement_data, calls, extractor, results>>

Next ==
    \/ \E file \in Files : Upload(file)
    \/ \E data \in MANUAL_ENTRIES : ManualEntry(data)
    \/ AdminAdd
    \/ \E id \in Ids : Process(id)
    \/ \E id \in Ids : ProcessExtract(id)
    \/ \E id \in Ids : ProcessMetadata(id)
    \/ \E id \in Ids : ProcessData(id)
    \/ \E id \in Ids : ProcessComplete(id)

Spec == Init /\ [][Next]_vars

\* Statements (uploads of a complete Chase statement, of one without a
\* period and of a file that cannot be opened, and manual entries) with the
\* analyses that import from them and the reviewer.
ImportSpec ==
    Init /\ [][\/ \E file \in {1, 2, 7} : Upload(file)
               \/ \E data \in MANUAL_ENTRIES : ManualEntry(data)
               \/ \E id \in Ids : Process(id)
               \/ \E id \in Ids : ProcessExtract(id)
               \/ \E id \in Ids : ProcessMetadata(id)
               \/ \E id \in Ids : ProcessData(id)
               \/ \E id \in Ids : ProcessComplete(id)
               \/ \E statement \in Ids \cup {0}, entered \in {Null, Some(7)} :
                     AnalysisCreate(statement, entered)
               \/ \E pk \in 1..Len(analyses) : ImportFromStatement(pk)
               \/ \E id \in Ids : AdminReview(id)]_vars

\* ------------------------------------------------- a caller's extractor ----

\* ChaseExtractor(file_path, force_ocr).
Construct(file, force_ocr) ==
    /\ extractor = Nothing
    /\ extractor' = [file |-> file, self |-> BaseExtractor(force_ocr)]
    /\ UNCHANGED <<pricing_models, analyses, parsed, LLM_AVAILABLE, GROQ_API_KEY, _groq_client, statements,
                   statement_data, calls, results>>

\* What a call of extract() leaves: r is [self, checked]; cache is the
\* shared client if the check ran.
ExtractReturn(r, cache) ==
    /\ extractor' = [extractor EXCEPT !.self = r.self]
    /\ results' = Append(results, r.self.extracted_data)
    /\ _groq_client' = IF r.checked THEN cache ELSE _groq_client

\* extractor.extract().
Extract ==
    /\ extractor # Nothing
    /\ Len(results) < MaxCalls
    /\ ExtractReturn(
           extract(extractor.self, DOCS[extractor.file],
               check_llm_installed(LLM_AVAILABLE, _groq_client, GROQ_API_KEY).ok),
           check_llm_installed(LLM_AVAILABLE, _groq_client, GROQ_API_KEY).cache)
    /\ UNCHANGED <<pricing_models, analyses, parsed, LLM_AVAILABLE, GROQ_API_KEY, statements, statement_data, calls>>

ExtractorNext ==
    \/ \E file \in Files, force_ocr \in BOOLEAN : Construct(file, force_ocr)
    \/ Extract

ExtractorSpec == Init /\ [][ExtractorNext]_vars


\* The file at the extractor's file_path is overwritten between two calls
\* by one pdfplumber cannot open; the extractor keeps the path.
Truncate ==
    /\ extractor # Nothing
    /\ ~DOCS[extractor.file].corrupt
    /\ extractor' = [extractor EXCEPT
                        !.file = CHOOSE file \in Files : DOCS[file].corrupt]
    /\ UNCHANGED <<pricing_models, analyses, parsed, LLM_AVAILABLE, GROQ_API_KEY, _groq_client, statements,
                   statement_data, calls, results>>

\* An extractor whose file may change between its extract() calls.
ReuseSpec == Init /\ [][ExtractorNext \/ Truncate]_vars

\* ------------------------------------------------------ amount parsing ----

\* No call yet, of _safe_decimal on a value: None, any str of at most
\* MaxLen characters a cell is made of, or one of three amounts as
\* statements print them.
ParseInit ==
    /\ EnvInit
    /\ statements = <<>>
    /\ statement_data = EmptyDict
    /\ calls = <<>>
    /\ extractor = Nothing
    /\ results = <<>>
    /\ analyses = <<>>
    /\ pricing_models = <<>>
    /\ parsed \in {[NoAmount EXCEPT !.value = value] :
           value \in {None, <<"$","1",",","2","3","4",".","5","6">>, <<"1","2","3","4",".","5","6">>, <<"(","1",",","2","3","4",".","5","6",")">>}
               \cup UNION {[1..n -> {"$", ",", "(", ")", "-", ".", " ",
                                     "1", "5", "N", "a"}] : n \in 0..MaxLen}}

\* self._safe_decimal(parsed.value): the call returns (its bare except
\* lets nothing out) a Decimal that is NaN or an infinity, or the finite
\* value `result`.
SafeDecimal ==
    /\ ~parsed.called
    /\ parsed' = [parsed EXCEPT
           !.called = TRUE,
           !.special = parsed.value # None /\ Decimal(Cleaned(parsed.value)).special,
           !.result = _safe_decimal(parsed.value)]
    /\ UNCHANGED <<pricing_models, analyses, LLM_AVAILABLE, GROQ_API_KEY, _groq_client, statements,
                   statement_data, calls, extractor, results>>

ParseSpec == ParseInit /\ [][SafeDecimal]_vars

\* ------------------------------------------------- concurrent processing ----

\* Two uploaded statements, each with its process_uploaded_statement call
\* about to start; the calls then run once each, their steps interleaved.
ConcurrentInit ==
    /\ EnvInit
    /\ \E file1 \in Files, file2 \in Files :
          statements = << MerchantStatement("UPLOAD", "PENDING", file1),
                          MerchantStatement("UPLOAD", "PENDING", file2) >>
    /\ calls = << [NoCall EXCEPT !.pc = "called"], [NoCall EXCEPT !.pc = "called"] >>
    /\ statement_data = EmptyDict
    /\ extractor = Nothing
    /\ results = <<>>
    /\ parsed = NoAmount
    /\ analyses = <<>>
    /\ pricing_models = <<>>

ConcurrentSpec ==
    ConcurrentInit
        /\ [][\/ \E id \in Ids : calls[id].pc = "called" /\ Process(id)
              \/ \E id \in Ids : ProcessExtract(id)
              \/ \E id \in Ids : ProcessMetadata(id)
              \/ \E id \in Ids : ProcessData(id)
              \/ \E id \in Ids : ProcessComplete(id)]_vars

\* --------------------------------------------------------- pricing models ----

\* The request bodies: analysis, model_type and is_selected, each given or
\* left out.
PRICING_BODIES ==
    [analysis : {Null} \cup {Some(pk) : pk \in 1..MaxAnalyses},
     model_type : {Null, Some("DISCOUNT_RATE"), Some("SURCHARGE")},
     is_selected : {Null, Some(TRUE), Some(FALSE)}]

\* is_valid() of PricingModelSerializer on the body `data` for the row
\* `instance` (0: a create): a full body names analysis and model_type, the
\* analysis exists, (analysis, model_type) stays unique among the other
\* rows, and validate() finds no other selected row of data.get('analysis')
\* when the body sets is_selected.
PricingModelSerializer(data, instance, partial) ==
    LET others == DOMAIN pricing_models \ {instance}
        analysis == IF data.analysis.ok THEN data.analysis.value
                    ELSE IF instance # 0 THEN pricing_models[instance].analysis ELSE 0
        model_type == IF data.model_type.ok THEN data.model_type.value
                      ELSE IF instance # 0 THEN pricing_models[instance].model_type ELSE ""
    IN  /\ partial \/ (data.analysis.ok /\ data.model_type.ok)
        /\ data.analysis.ok => data.analysis.value \in 1..Len(analyses)
        /\ ~\E id \in others : /\ pricing_models[id].analysis = analysis
                                /\ pricing_models[id].model_type = model_type
        /\ data.is_selected = Some(TRUE) =>
               ~\E id \in others :
                   /\ data.analysis.ok
                   /\ pricing_models[id].analysis = data.analysis.value
                   /\ pricing_models[id].is_selected

\* PricingModelListCreateView.create: POST of a body the serializer accepts.
PricingModelCreate(data) ==
    /\ Len(pricing_models) < MaxPricingModels
    /\ PricingModelSerializer(data, 0, FALSE)
    /\ pricing_models' = Append(pricing_models,
           [analysis |-> data.analysis.value, model_type |-> data.model_type.value,
            is_selected |-> data.is_selected = Some(TRUE)])
    /\ UNCHANGED <<analyses, parsed, LLM_AVAILABLE, GROQ_API_KEY, _groq_client,
                   statements, statement_data, calls, extractor, results>>

\* PricingModelDetailView.update (PUT) and partial_update (PATCH) of a body
\* the serializer accepts: the fields the body gives are saved.
PricingModelUpdate(pk, data, partial) ==
    /\ PricingModelSerializer(data, pk, partial)
    /\ pricing_models' = [pricing_models EXCEPT ![pk] =
           [analysis |-> IF data.analysis.ok THEN data.analysis.value ELSE @.analysis,
            model_type |-> IF data.model_type.ok THEN data.model_type.value
                           ELSE @.model_type,
            is_selected |-> IF data.is_selected.ok THEN data.is_selected.value
                            ELSE @.is_selected]]
    /\ UNCHANGED <<analyses, parsed, LLM_AVAILABLE, GROQ_API_KEY, _groq_client,
                   statements, statement_data, calls, extractor, results>>

\* Analyses and the pricing models created and updated for them.
PricingSpec ==
    Init /\ [][\/ \E entered \in {Null, Some(7)} : AnalysisCreate(0, entered)
               \/ \E data \in PRICING_BODIES : PricingModelCreate(data)
               \/ \E pk \in DOMAIN pricing_models, data \in PRICING_BODIES,
                     partial \in BOOLEAN : PricingModelUpdate(pk, data, partial)]_vars
\* ------------------------------------------------------------ properties ----

\* The last process_uploaded_statement call on the statement has returned.
Returned(id) == calls[id].pc = "idle" /\ calls[id].returned # "none"

\* The dict of an extract() that took its except branch (base.py:76-80),
\* the only place that sets the key 'errors'.
FatalResult(data) == "errors" \in DOMAIN data

\* C1: when extract() ended in a fatal error, process() has set the record
\* FAILED with that error's message and returned false; the record is never
\* COMPLETED.
C1_FatalExtractionFails ==
    \A id \in Ids :
        (calls[id].extracted /\ FatalResult(calls[id].data)) =>
            /\ statements[id].status # "COMPLETED"
            /\ Returned(id) =>
                  /\ statements[id].status = "FAILED"
                  /\ statements[id].extraction_notes = calls[id].data["errors"]
                  /\ calls[id].returned = "False"

\* A readable first page whose text holds neither signature of the one
\* implemented extractor.
NoImplementedSignature(doc) ==
    /\ ~doc.corrupt
    /\ doc.pages # <<>>
    /\ ~doc.pages[1].text_raises
    /\ LET text == IF doc.pages[1].text = None THEN <<>> ELSE doc.pages[1].text
       IN  /\ ~Contains(<<"c","h","a","s","e"," ","p","a","y","m","e","n","t","e","c","h">>, lower(text))
           /\ ~Contains(<<"j",".","p",".","m","o","r","g","a","n">>, lower(text))

\* C2: for a document whose first-page text matches no implemented
\* processor signature, no extractor is selected and extract() is never run;
\* once process() has returned the record is FAILED with confidence 0 and
\* the call returned false.
C2_UnsupportedFails ==
    \A id \in Ids :
        (statements[id].file # 0 /\ NoImplementedSignature(DOCS[statements[id].file])) =>
            /\ ~calls[id].extracted
            /\ Returned(id) =>
                  /\ statements[id].status = "FAILED"
                  /\ statements[id].extraction_confidence = Some(0)
                  /\ calls[id].returned = "False"

C2_Witness ==
    \E id \in Ids :
        /\ statements[id].file # 0
        /\ NoImplementedSignature(DOCS[statements[id].file])
        /\ Returned(id)
        /\ statements[id].status = "FAILED"

\* C3: every status change follows PENDING -> PROCESSING ->
\* (COMPLETED | FAILED): a PENDING record, with or without a file, changes
\* to PROCESSING only, and a PROCESSING record to COMPLETED or FAILED only.
C3_StatusChain ==
    [][\A id \in Ids :
          /\ statements[id].status = "PENDING" =>
                statements'[id].status \in {"PENDING", "PROCESSING"}
          /\ statements[id].status = "PROCESSING" =>
                statements'[id].status \in {"PROCESSING", "COMPLETED", "FAILED"}]_vars

\* C4: COMPLETED and FAILED are terminal: a COMPLETED record never changes
\* status, and a FAILED record changes status only in the step that enters
\* a new process() call on it.
C4_TerminalStatuses ==
    [][\A id \in Ids :
          /\ statements[id].status = "COMPLETED" =>
                statements'[id].status = "COMPLETED"
          /\ (statements[id].status = "FAILED" /\ statements'[id].status # "FAILED") =>
                (calls[id].pc \in {"called", "idle"} /\ calls'[id].pc = "extract")]_vars

\* C5: where process() has returned true the record is COMPLETED, its
\* processed timestamp is set, its stored confidence is the extraction's
\* confidence, and requires_review is true exactly when that is below 80.
C5_SuccessPostcondition ==
    \A id \in Ids :
        calls[id].returned = "True" =>
            /\ statements[id].status = "COMPLETED"
            /\ statements[id].processed_at # "null"
            /\ statements[id].extraction_confidence =
                  Some(calls[id].data["extraction_confidence"])
            /\ statements[id].requires_review =
                  (calls[id].data["extraction_confidence"] < 80)

C5_Witness ==
    \E id \in Ids :
        /\ calls[id].returned = "True"
        /\ calls[id].data["extraction_confidence"] = 80
        /\ ~statements[id].requires_review

\* C6: the confidence of every extraction result is the sum of the five
\* weights over what was actually found: +20 merchant name, +20 both period
\* bounds (+10 exactly one), +30 only if some network has a non-zero volume,
\* +20 only if some fee category is non-zero, +10 only if total_volume > 0;
\* a result holding only the merchant name scores 20, an empty one 0.
C6_ConfidenceIsWeightedSum ==
    \A i \in 1..Len(results) :
        ~FatalResult(results[i]) =>
            LET data    == results[i]
                period  == data["statement_period"]
                bounds  == {k \in {"start_date", "end_date"} :
                               period[k] # None /\ period[k] # <<>>}
                volumes == data["card_volumes"]
                fees    == data["fees"]
            IN  data["extraction_confidence"] =
                    (IF data["merchant_name"] # None /\ data["merchant_name"] # <<>>
                     THEN 20 ELSE 0)
                    + 10 * Cardinality(bounds)
                    + (IF \E n \in DOMAIN volumes : volumes[n].volume # 0
                       THEN 30 ELSE 0)
                    + (IF \E k \in DOMAIN fees : fees[k] # 0 THEN 20 ELSE 0)
                    + (IF data["totals"]["total_volume"] > 0 THEN 10 ELSE 0)

\* C7: every per-network volume and count, every fee category,
\* total_volume, transaction_count and total_fees of the extraction result
\* process() received, and every volume, count and fee of the persisted
\* StatementData, is greater than or equal to zero.
C7_NothingNegative ==
    \A id \in Ids :
        /\ (calls[id].extracted /\ ~FatalResult(calls[id].data)) =>
              LET data == calls[id].data
              IN  /\ \A n \in DOMAIN data["card_volumes"] :
                        /\ data["card_volumes"][n].volume >= 0
                        /\ data["card_volumes"][n].count >= 0
                  /\ \A k \in DOMAIN data["fees"] : data["fees"][k] >= 0
                  /\ \A k \in DOMAIN data["totals"] : data["totals"][k] >= 0
        /\ id \in DOMAIN statement_data =>
              \A k \in DOMAIN statement_data[id] \ {"effective_rate"} :
                  statement_data[id][k] >= 0

\* C8: every extraction result handed to process() holds the five card
\* networks, each with a volume and a count: none missing, none None.
C8_FiveNetworksPresent ==
    \A id \in Ids :
        calls[id].extracted =>
            /\ "card_volumes" \in DOMAIN calls[id].data
            /\ \A n \in {"visa", "mastercard", "amex", "discover", "interac"} :
                  /\ n \in DOMAIN calls[id].data["card_volumes"]
                  /\ DOMAIN calls[id].data["card_volumes"][n] = {"volume", "count"}

\* C9: two extract() calls on the same extractor over the same document,
\* the fallback's availability unchanged, return results equal in every
\* field, diagnostics included.
C9_ExtractTwiceEqual ==
    \A i \in 1..Len(results) : results[i] = results[1]

\* The primary text of a document all of whose pages can be read: the page
\* texts joined by newlines.
PrimaryText(doc) == join(<<"\n">>, PageTexts(doc.pages))

\* C10: when the fallback is unavailable and the primary text is shorter
\* than 100 characters, whatever force_ocr is, acquisition returns the
\* primary text and appends a diagnostic saying the fallback was unavailable,
\* and the extraction result is not fatal.
C10_UnavailableFallbackNoted ==
    (/\ extractor # Nothing
     /\ results # <<>>
     /\ ~check_llm_installed(LLM_AVAILABLE, _groq_client, GROQ_API_KEY).ok
     /\ ~DOCS[extractor.file].corrupt
     /\ ~SomePageRaises(DOCS[extractor.file].pages)
     /\ Len(strip(PrimaryText(DOCS[extractor.file]))) < 100) =>
        /\ ~FatalResult(results[Len(results)])
        /\ extractor.self.full_text = PrimaryText(DOCS[extractor.file])
        /\ \E k \in 1..Len(extractor.self.errors) :
              extractor.self.errors[k] =
                  "Limited text detected but alternative extraction not available"


FallbackCalled(doc, force_ocr) ==
    /\ check_llm_installed(LLM_AVAILABLE, _groq_client, GROQ_API_KEY).ok
    /\ ~doc.corrupt
    /\ force_ocr \/ Len(strip(PrimaryText(doc))) < 100

\* C12: when the fallback, called at either point, fails or gives no text
\* while the pages themselves can be read, extract() does not end in a fatal
\* error: the text it works on is the primary text and every later step has
\* run, down to the confidence and raw_data.
C12_FallbackFailureNotFatal ==
    (/\ extractor # Nothing
     /\ results # <<>>
     /\ FallbackCalled(DOCS[extractor.file], extractor.self.force_ocr)
     /\ extract_text_from_pdf(DOCS[extractor.file], TRUE) = <<>>
     /\ ~SomePageRaises(DOCS[extractor.file].pages)) =>
        /\ ~FatalResult(results[Len(results)])
        /\ extractor.self.full_text = PrimaryText(DOCS[extractor.file])
        /\ {"merchant_name", "statement_period", "card_volumes", "fees", "totals",
            "extraction_confidence", "raw_data"} \subseteq DOMAIN results[Len(results)]
        /\ results[Len(results)]["extraction_confidence"] =
               extractor.self.confidence

\* The fallback failed to open a document with a text layer, at the second
\* point where it is called, and the merchant name was still extracted.
C12_Witness ==
    /\ extractor # Nothing
    /\ results # <<>>
    /\ ~extractor.self.force_ocr
    /\ FallbackCalled(DOCS[extractor.file], FALSE)
    /\ DOCS[extractor.file].reopen_raises
    /\ ~FatalResult(results[Len(results)])
    /\ results[Len(results)]["extraction_confidence"] > 0

\* C13: in the result of a first extract() call that did not end in a fatal
\* error, every field step has left its value (so every later step ran),
\* and for each of the five steps that found nothing (its value is the
\* zero/empty default) one diagnostic was appended: the trail holds, beside
\* the notes of text acquisition, at least one entry per such step.
C13_MissAppendsDiagnostic ==
    (extractor # Nothing /\ Len(results) = 1 /\ ~FatalResult(results[1])) =>
        LET data == results[1]
            missed ==
                {step \in {"merchant_name", "statement_period", "card_volumes",
                           "fees", "totals"} :
                    \/ data[step] = <<>>
                    \/ step = "statement_period"
                         /\ data[step] = [start_date |-> None, end_date |-> None]
                    \/ step = "card_volumes"
                         /\ \A n \in DOMAIN data[step] :
                               data[step][n] = [volume |-> 0, count |-> 0]
                    \/ step \in {"fees", "totals"}
                         /\ \A k \in DOMAIN data[step] : data[step][k] = 0}
            noted ==
                {k \in 1..Len(extractor.self.errors) :
                    extractor.self.errors[k] \notin
                        {"Used LLM-based extraction (force_ocr=True)",
                         "Used alternative extraction fallback",
                         "Limited text detected but alternative extraction not available"}}
        IN  /\ {"merchant_name", "statement_period", "card_volumes", "fees",
                "totals", "extraction_confidence", "raw_data"} \subseteq DOMAIN data
            /\ Cardinality(noted) >= Cardinality(missed)

\* C14: every result of extract() that carries a fatal error has confidence
\* 0 and holds no merchant name, no period bound, and no non-zero volume,
\* count, fee or total, also when the failing call follows a successful call
\* on the same extractor.
C14_FatalResultIsEmpty ==
    \A i \in 1..Len(results) :
        FatalResult(results[i]) =>
            LET data    == results[i]
                period  == Get(data, "statement_period", EmptyDict)
                volumes == Get(data, "card_volumes", EmptyDict)
                fees    == Get(data, "fees", EmptyDict)
                totals  == Get(data, "totals", EmptyDict)
            IN  /\ data["extraction_confidence"] = 0
                /\ ~NonEmpty(Get(data, "merchant_name", None))
                /\ \A k \in DOMAIN period : ~NonEmpty(period[k])
                /\ \A n \in DOMAIN volumes :
                      volumes[n].volume = 0 /\ volumes[n].count = 0
                /\ \A k \in DOMAIN fees : fees[k] = 0
                /\ \A k \in DOMAIN totals : totals[k] = 0

\* C15: once process() is past extract_from_file on a stored file, the Chase
\* extractor was selected and run exactly when the lower-cased text of the
\* first page holds "chase paymentech" or "j.p.morgan", whatever other brand
\* keyword that text holds and whatever the later pages hold; for every
\* other first page, and for a file without a readable first page, no
\* extractor was selected.
C15_FirstMatchDetection ==
    \A id \in Ids :
        (/\ statements[id].file # 0
         /\ calls[id].pc \in {"metadata", "data", "complete"} \/ Returned(id)) =>
            LET doc  == DOCS[statements[id].file]
                text == IF doc.corrupt \/ doc.pages = <<>> THEN <<>>
                        ELSE IF doc.pages[1].text_raises \/ doc.pages[1].text = None
                        THEN <<>>
                        ELSE lower(doc.pages[1].text)
            IN  calls[id].extracted <=>
                    \/ Contains(<<"c","h","a","s","e"," ","p","a","y","m","e","n","t","e","c","h">>, text)
                    \/ Contains(<<"j",".","p",".","m","o","r","g","a","n">>, text)

\* The Chase extractor ran on a first page that also names Clover.
C15_Witness ==
    \E id \in Ids :
        /\ statements[id].file # 0
        /\ calls[id].extracted
        /\ Returned(id)
        /\ Contains(<<"c","l","o","v","e","r">>, lower(DOCS[statements[id].file].pages[1].text))

\* C16: in the result of a first extract() call whose card volumes came from
\* the table fallback (no text line gave a volume), for every network named
\* by a table row, with `row` the last row naming it: the volume is the
\* row's net-sales cell (column 6) when that is non-zero and its gross-sales
\* cell (column 2) otherwise, and the count is the row's count cell
\* (column 1), also when several rows name the network.
C16_TableRowCells ==
    (/\ extractor # Nothing
     /\ Len(results) = 1
     /\ ~FatalResult(results[1])
     /\ ~TableRows(DOCS[extractor.file].pages).raised
     /\ \A n \in NETWORKS :
           CardLines(split(extractor.self.full_text, "\n"))[n] =
               [volume |-> 0, count |-> 0]) =>
        LET rows == TableRows(DOCS[extractor.file].pages).rows
        IN  \A n \in NETWORKS :
                LET named == {i \in 1..Len(rows) : RowNetwork(rows[i]) = n}
                    row   == rows[Greatest(named)]
                    cell(k) == IF Len(row) >= k /\ Truthy(row[k]) THEN row[k] ELSE <<>>
                IN  named # {} =>
                        /\ results[1]["card_volumes"][n].volume =
                               IF _safe_decimal(cell(7)) # 0
                               THEN _safe_decimal(cell(7))
                               ELSE _safe_decimal(cell(3))
                        /\ results[1]["card_volumes"][n].count = _safe_int(cell(2))

\* C17: _safe_decimal returns 1234.56 for "$1,234.56" and for "1234.56" and
\* -1234.56 for "(1,234.56)"; for every value that, with "$", "," and ")"
\* removed, "(" replaced by "-" and the surrounding whitespace stripped, is
\* not a number (an optional sign, then digits with at most one point) it
\* returns the default 0.00; it never raises.
C17_AmountParsing ==
    parsed.called =>
        /\ parsed.value \in {<<"$","1",",","2","3","4",".","5","6">>, <<"1","2","3","4",".","5","6">>} =>
              ~parsed.special /\ parsed.result = 200 * 1234 + 2 * 56
        /\ parsed.value = <<"(","1",",","2","3","4",".","5","6",")">> =>
              ~parsed.special /\ parsed.result = -(200 * 1234 + 2 * 56)
        /\ (\/ parsed.value = None
            \/ LET body == Unsign(Cleaned(parsed.value))
               IN  \/ \E i \in 1..Len(body) : ~IsDigit(body[i]) /\ body[i] # "."
                   \/ Cardinality({i \in 1..Len(body) : body[i] = "."}) > 1
                   \/ \A i \in 1..Len(body) : ~IsDigit(body[i])) =>
              ~parsed.special /\ parsed.result = 0

\* The text holds the statement period with two dates that parse, a line of
\* a card network with count and amount, a Totals line with count and
\* amount, and a merchant name, and no line of a fee.
CompleteButFees(text) ==
    /\ NonEmpty(_extract_merchant_name(text))
    /\ NonEmpty(_extract_statement_period(text).start_date)
    /\ NonEmpty(_extract_statement_period(text).end_date)
    /\ \E n \in NETWORKS :
          CardLines(split(text, "\n"))[n] # [volume |-> 0, count |-> 0]
    /\ TotalsLines(split(text, "\n")).transaction_count # 0
    /\ \A i \in 1..Len(split(text, "\n")) :
          FeeBranch(upper(split(text, "\n")[i])) = "none"

\* C18: every extract() that worked on a text with the statement period, a
\* card network line, a Totals line and a merchant name, and without any
\* fee line, returns a confidence of at least 90.
C18_CompleteWithoutFees ==
    (/\ extractor # Nothing
     /\ results # <<>>
     /\ ~FatalResult(results[Len(results)])
     /\ CompleteButFees(extractor.self.full_text)) =>
        results[Len(results)]["extraction_confidence"] >= 90

\* Such a text was extracted and no fee was found.
C18_Witness ==
    /\ extractor # Nothing
    /\ results # <<>>
    /\ ~FatalResult(results[Len(results)])
    /\ CompleteButFees(extractor.self.full_text)
    /\ \A k \in DOMAIN results[1]["fees"] : results[1]["fees"][k] = 0

\* C19: no step copies extracted values of a statement into an Analysis
\* while the statement's requires_review flag is set: whenever
\* import-from-statement changes a field of an analysis, the linked statement
\* does not require review.
C19_NoImportBeforeReview ==
    [][\A pk \in 1..Len(analyses) :
          [analyses'[pk] EXCEPT !.response = 0] # [analyses[pk] EXCEPT !.response = 0]
              => ~statements[analyses[pk].statement].requires_review]_vars

\* What process_uploaded_statement leaves of a statement with this file when
\* no other call runs: the row, and its StatementData row if it has one.
ProcessedAlone(file, llm_available, api_key) ==
    LET got == ExtractorFactory_extract_from_file(file,
                   check_llm_installed(llm_available, None, api_key).ok)
        row == MerchantStatement("UPLOAD", "PROCESSING", file)
    IN  IF ~Get(got.data, "success", FALSE)
        THEN [statement |-> [row EXCEPT
                  !.status = "FAILED",
                  !.extraction_notes =
                      <<Get(got.data, "error", "Unknown extraction error")>>,
                  !.extraction_confidence = Some(0)],
              data |-> Null]
        ELSE IF _create_statement_data(got.data).raised
        THEN [statement |-> [_update_statement_metadata(row, got.data) EXCEPT
                  !.status = "FAILED",
                  !.extraction_notes = <<"Processing error">>],
              data |-> Null]
        ELSE [statement |-> [_update_statement_metadata(row, got.data) EXCEPT
                  !.status = "COMPLETED", !.processed_at = "now"],
              data |-> Some(_create_statement_data(got.data).row)]

\* A record whose process_uploaded_statement call has returned holds what
\* processing it alone leaves.
C20_OutcomeAsAlone ==
    \A id \in Ids :
        calls[id].returned # "none" =>
            /\ statements[id] =
                   ProcessedAlone(statements[id].file, LLM_AVAILABLE, GROQ_API_KEY).statement
            /\ IF id \in DOMAIN statement_data
               THEN Some(statement_data[id]) =
                   ProcessedAlone(statements[id].file, LLM_AVAILABLE, GROQ_API_KEY).data
               ELSE Null =
                   ProcessedAlone(statements[id].file, LLM_AVAILABLE, GROQ_API_KEY).data

\* C20: when two records are processed concurrently, in any interleaving,
\* each record ends with the status, confidence, diagnostics and stored data
\* that processing it alone produces, and an extraction that consults the
\* shared fallback client finds it as the process start left it (None): no
\* other record's extraction has written it.
C20_ConcurrentIndependence ==
    /\ []C20_OutcomeAsAlone
    /\ [][\A id \in Ids :
             /\ calls[id].pc = "extract"
             /\ calls'[id].pc # "extract"
             /\ ExtractorFactory_extract_from_file(statements[id].file,
                    check_llm_installed(LLM_AVAILABLE, _groq_client, GROQ_API_KEY).ok).checked
             => _groq_client = None]_vars

\* ----------------------------------------------- import, pricing, fees ----

C22_OneSelectedPerAnalysis ==
    \A pk \in 1..Len(analyses) :
        Cardinality({id \in DOMAIN pricing_models :
                        /\ pricing_models[id].analysis = pk
                        /\ pricing_models[id].is_selected}) <= 1

\* C23: in the result of a first extract() call on a text with a 'Fees And
\* Assessments Total' amount, the assessment bucket is the figure of the
\* 'Assessment Fees' lines when there is one, and half of the combined total
\* when there is none.
C23_CombinedTotalSplit ==
    (extractor # Nothing /\ Len(results) = 1 /\ ~FatalResult(results[1])) =>
        LET lines == split(extractor.self.full_text, "\n")
            Amount(i) == IF IsAmount(_extract_amount_from_line(lines[i]))
                         THEN _extract_amount_from_line(lines[i]).value ELSE 0
            specific[i \in 0..Len(lines)] ==
                IF i = 0 THEN 0
                ELSE specific[i - 1]
                     + (IF FeeBranch(upper(lines[i])) = "assessment_fees"
                        THEN Amount(i) ELSE 0)
            combined[i \in 0..Len(lines)] ==
                IF i = 0 THEN 0
                ELSE combined[i - 1]
                     + (IF FeeBranch(upper(lines[i])) = "fees_and_assessments"
                        THEN Amount(i) ELSE 0)
        IN  combined[Len(lines)] > 0 =>
                results[1]["fees"]["assessment_fees"] =
                    IF specific[Len(lines)] > 0
                    THEN specific[Len(lines)]
                    ELSE combined[Len(lines)] \div 2

\* C24: in the result of a first extract() call, every one of the five fee
\* categories holds the greater of what the line scan gave it and what the
\* same phrase matching gives it on the table rows: a fee that stands in a
\* table row only is found, and one matched both ways is the maximum.
C24_TableFeesAllCategories ==
    (/\ extractor # Nothing
     /\ Len(results) = 1
     /\ ~FatalResult(results[1])
     /\ ~TableRows(DOCS[extractor.file].pages).raised) =>
        LET rows == TableRows(DOCS[extractor.file].pages).rows
            scanned == FeeLines(split(extractor.self.full_text, "\n"))
            tabled[i \in 0..Len(rows)] ==
                IF i = 0 THEN [k \in FEE_KEYS |-> 0]
                ELSE IF Len(rows[i]) < 2 THEN tabled[i - 1]
                ELSE AddFee(tabled[i - 1],
                            FeeBranch(upper(join(<<" ">>, SelectSeq(rows[i], Truthy)))),
                            _extract_amount_from_row(rows[i]))
        IN  \A k \in FEE_KEYS :
                results[1]["fees"][k] =
                    IF scanned[k] >= tabled[Len(rows)][k]
                    THEN scanned[k] ELSE tabled[Len(rows)][k]

\* At most one network's entry differs.
C25_OneEntry(before, after) ==
    Cardinality({n \in NETWORKS : after[n] # before[n]}) <= 1

\* When the line scan found a volume, the entries are those it gave and
\* the card-volume step has not raised.
C25_AsScanned(scanned, extracted, card_volumes) ==
    (\E n \in NETWORKS : scanned[n].volume # 0) =>
        card_volumes = scanned /\ extracted = [value |-> scanned, raised |-> FALSE]

\* C25: in the result of a first extract() call whose line scan found a
\* non-zero volume for some network, every network's entry is what the line
\* scan gave it, whatever the tables hold, and the tables are not read for
\* card volumes (a table that cannot be read leaves no card-volume error);
\* each text line assigns the entry of at most one network.
C25_TablesOnlyAfterEmptyScan ==
    (extractor # Nothing /\ Len(results) = 1 /\ ~FatalResult(results[1])) =>
        LET lines == split(extractor.self.full_text, "\n")
            unset == [n \in NETWORKS |-> [volume |-> -1, count |-> -1]]
        IN  /\ \A i \in 1..Len(lines) : C25_OneEntry(unset, CardLine(unset, lines[i]))
            /\ C25_AsScanned(CardLines(lines),
                         _extract_card_volumes(extractor.self.full_text,
                                               DOCS[extractor.file]),
                         results[1]["card_volumes"])

\* A result whose Visa entry came from a text line while the tables name
\* Visa and Mastercard with other figures.
C25_Witness ==
    /\ extractor # Nothing
    /\ Len(results) = 1
    /\ ~FatalResult(results[1])
    /\ results[1]["card_volumes"]["visa"].count = 98
    /\ results[1]["card_volumes"]["mastercard"].volume = 0
    /\ \E i \in 1..Len(TableRows(DOCS[extractor.file].pages).rows) :
           /\ RowNetwork(TableRows(DOCS[extractor.file].pages).rows[i]) = "mastercard"
           /\ _safe_decimal(TableRows(DOCS[extractor.file].pages).rows[i][7]) > 0

\* C27: in the result of a first extract() call, the volume and the count
\* of the totals are those of the line scan when it found a volume, and
\* otherwise those the rows whose first cell is exactly 'Totals' give
\* (net sales from column 6, items from column 5): a row whose first cell
\* only contains the word sets neither.
C27_ExactTotalsRow ==
    (/\ extractor # Nothing
     /\ Len(results) = 1
     /\ ~FatalResult(results[1])
     /\ ~TableRows(DOCS[extractor.file].pages).raised) =>
        LET rows == TableRows(DOCS[extractor.file].pages).rows
            scanned == TotalsLines(split(extractor.self.full_text, "\n"))
            taken[i \in 0..Len(rows)] ==
                IF i = 0 THEN scanned
                ELSE IF rows[i][1] = <<"T","o","t","a","l","s">>
                THEN [taken[i - 1] EXCEPT
                         !.total_volume =
                             IF Len(rows[i]) > 6 /\ Truthy(rows[i][7])
                             THEN _safe_decimal(rows[i][7]) ELSE @,
                         !.transaction_count =
                             IF Len(rows[i]) > 5 /\ Truthy(rows[i][6])
                             THEN _safe_int(rows[i][6]) ELSE @]
                ELSE taken[i - 1]
            expected == IF scanned.total_volume # 0 THEN scanned ELSE taken[Len(rows)]
        IN  /\ results[1]["totals"]["total_volume"] = expected.total_volume
            /\ results[1]["totals"]["transaction_count"] = expected.transaction_count

\* C26: in a first extract() call with force_ocr not set on a document whose
\* pages can all be read: when the primary text is shorter than 100
\* characters and the fallback is available, the text worked on is the
\* fallback's, with the diagnostic "Used alternative extraction fallback"
\* appended once, exactly when the fallback's text is strictly longer than
\* the primary text, and the primary text without that diagnostic otherwise;
\* when the primary text has 100 characters or more the fallback is not
\* called: the text is the primary text and no diagnostic names the
\* fallback.
C26_ShortTextFallback ==
    (/\ extractor # Nothing
     /\ Len(results) = 1
     /\ ~extractor.self.force_ocr
     /\ ~DOCS[extractor.file].corrupt
     /\ ~SomePageRaises(DOCS[extractor.file].pages)) =>
        LET primary == PrimaryText(DOCS[extractor.file])
            ocr_text == extract_text_from_pdf(DOCS[extractor.file], TRUE)
            noted == {k \in 1..Len(extractor.self.errors) :
                         extractor.self.errors[k] = "Used alternative extraction fallback"}
        IN  /\ (/\ Len(primary) < 100
                /\ check_llm_installed(LLM_AVAILABLE, _groq_client, GROQ_API_KEY).ok) =>
                   IF Len(ocr_text) > Len(primary)
                   THEN extractor.self.full_text = ocr_text /\ Cardinality(noted) = 1
                   ELSE extractor.self.full_text = primary /\ noted = {}
            /\ Len(primary) >= 100 =>
                   extractor.self.full_text = primary /\ noted = {}

\* C28: once a process_uploaded_statement call has returned, it has returned
\* True if and only if the statement is COMPLETED, and False with the
\* statement FAILED in every other outcome (no file, unsupported, failed
\* extraction, exception while persisting): never with the statement left
\* PROCESSING.
C28_ReturnMatchesStatus ==
    \A id \in Ids :
        calls[id].returned # "none" =>
            /\ calls[id].returned = "True" <=> statements[id].status = "COMPLETED"
            /\ calls[id].returned = "False" <=> statements[id].status = "FAILED"
            /\ statements[id].status # "PROCESSING"

\* A call has returned False after _create_statement_data raised, the
\* metadata already saved.
C28_Witness ==
    \E id \in Ids :
        /\ calls[id].returned = "False"
        /\ calls[id].extracted
        /\ statements[id].extraction_notes = <<"Processing error">>
        /\ statements[id].processor_name = "Chase Paymentech"

\* C29: once a process_uploaded_statement call on a statement with a file
\* has returned with the statement FAILED, the stored confidence is 0 and the row holds no
\* merchant name, period or requires_review value of that call, and there is
\* no StatementData row of it, also when _create_statement_data raised after
\* the metadata was saved.
C29_FailedKeepsNothing ==
    \A id \in Ids :
        (/\ calls[id].returned = "False"
         /\ statements[id].status = "FAILED"
         /\ statements[id].file # 0) =>
            /\ statements[id].extraction_confidence = Some(0)
            /\ statements[id].merchant_name = <<>>
            /\ statements[id].statement_period_start = None
            /\ statements[id].statement_period_end = None
            /\ ~statements[id].requires_review
            /\ id \notin DOMAIN statement_data

\* C30: a statement that is COMPLETED after the Chase parser the factory
\* selected has run on its file holds the processor_name 'Chase
\* Paymentech', whether the parser worked on the primary text or on the
\* fallback's.
C30_DetectorAndParserAgree ==
    \A id \in Ids :
        (/\ statements[id].status = "COMPLETED"
         /\ statements[id].file # 0
         /\ calls[id].extracted) =>
            /\ create_extractor(DOCS[statements[id].file]).extractor = "ChaseExtractor"
            /\ statements[id].processor_name = "Chase Paymentech"
====
